---------------------------- MODULE Spec2Model ----------------------------
(***************************************************************************)
(* GPX track generation (lib/gpx.ts): speed resolution in generateGpx, the *)
(* legacy generator generateTrackPoints, the realistic generator           *)
(* generateRealisticTimestamps and the batched elevation lookup            *)
(* addElevationToPoints / fetchElevationBatch.  Further sections model the *)
(* GPX serialisers and formatters, the routing service and waypoint store, *)
(* the elevation proxy and the export handlers.                            *)
(*                                                                         *)
(* Number representation (IEEE doubles are modelled in fixed point):       *)
(*   time            integer milliseconds (a Date truncates to whole ms)   *)
(*   distance        millimetres                                           *)
(*   speed           metres per hour (10 km/h = 10000)                     *)
(*   pace            hundredths of a minute per km (5 min/km = 500)        *)
(*   multipliers     1/10000 (pacing), 1/1000 (legacy variation), 1/10     *)
(*   elevation       millimetres in the realistic path, whole metres where *)
(*                   the code rounds (legacy path, looked-up values)       *)
(* An optional value is <<>> (undefined) or <<v>>.  NaN stands for the     *)
(* double NaN.                                                             *)
(***************************************************************************)
EXTENDS Integers, Sequences, FiniteSets, TLC

VARIABLES
    pc,                  \* position of the call in progress
    options,             \* GPXGenerationOptions of the generateGpx call
    speedKmh,            \* speed resolved by generateGpx
    rpoints,             \* points argument of generateRealisticTimestamps / addElevationToPoints
    result,              \* output point array (points / result in the source)
    idx,                 \* loop variable i of the generation loop
    currentTime,         \* running clock of the generation loop
    totalDistance,       \* running distance of the generation loop
    cumulativeElevation, \* cumulativeElevation of generateRealisticTimestamps
    pointsWithElevation, \* looked-up elevations kept by generateRealisticTimestamps
    caller,              \* who awaits addElevationToPoints
    batchStart,          \* loop variable i of addElevationToPoints
    attempt,             \* loop variable attempt of fetchElevationBatch
    enrichedPoints,      \* enrichedPoints of addElevationToPoints
    log,                 \* history: lookup requests, waits and fallbacks, in order
    outcome,             \* "pending", "resolved" or "rejected": settlement of the promise
    segments,            \* history: speed of each timed segment, with the Gaussian sample
                         \* drawn for it in the realistic path
    call,                \* name of the last pure function called directly
    arg,                 \* its arguments
    ret,                 \* its return value
    store,               \* state of useWaypointStore
    pending,             \* routing requests awaiting the reply of the routing API
    cache,               \* RoutingService.cache, in insertion order
    apiKey,              \* whether RoutingService.apiKey is non-empty
    requests,            \* history: number of requests sent to the routing API
    served,              \* history: the getRoute call settled by the last step, if any
    settled,             \* history: the calculateRoute call settled by the last step, if any
    handler,             \* the export handler that was called ("none" before)
    toasts,              \* history: the notifications emitted by the handler, in order
    download             \* downloadGpx call of the handler: "none", "pending",
                         \* "completed" or "rejected"

vars == <<pc, options, speedKmh, rpoints, result, idx, currentTime, totalDistance,
          cumulativeElevation, pointsWithElevation, caller, batchStart, attempt,
          enrichedPoints, log, outcome, segments, call, arg, ret,
          store, pending, cache, apiKey, requests, served, settled,
          handler, toasts, download>>

genVars == <<options, speedKmh, result, idx, currentTime, totalDistance,
             cumulativeElevation, pointsWithElevation, segments>>

pureVars == <<call, arg, ret>>

storeVars == <<store, pending, cache, apiKey, requests, served, settled>>

exportVars == <<handler, toasts, download>>

\* everything outside track generation and the elevation lookup
restVars == <<pureVars, storeVars, exportVars>>

fetchVars == <<batchStart, attempt, enrichedPoints, log>>

---------------------------------------------------------------------------
(* Bounds of the model *)

MaxPoints == 3        \* longest coordinate list handed to generateGpx
MaxBatches == 2       \* most batches of a direct addElevationToPoints call
MaxLen == 3           \* longest string handed to escapeXml
MaxWaypoints == 2     \* most waypoints in the store
MaxRequests == 3      \* most routing requests sent on behalf of the store
MaxRoutes == 103      \* most routing requests sent by direct getRoute calls
MaxLocations == 2    \* most locations of a proxy request (besides the one of 101)

MaxCurve == 11       \* most points of a direct generatePacingCurve call

MaxInFlight == 2      \* most direct getRoute calls awaiting the API at once

---------------------------------------------------------------------------
(* Generic helpers *)

NaN == -2147483647

Max(a, b) == IF a >= b THEN a ELSE b

Min(a, b) == IF a <= b THEN a ELSE b

Abs(a) == IF a >= 0 THEN a ELSE -a

\* Math.round on a value given in 1/scale units: nearest integer, ties upwards
MathRound(x, scale) == (2 * x + scale) \div (2 * scale)

\* JavaScript truthiness of an optional number: undefined, 0 and NaN are falsy
Truthy(o) == o # <<>> /\ o[1] # 0 /\ o[1] # NaN

\* 1000 * sin(2*pi*a/b) for 0 <= a <= b (Bhaskara I's rational approximation,
\* exact at 0, 1/12, 1/4, 5/12 and 1/2 turn, absolute error below 0.002)
Sin1000(a, b) ==
    LET half(p) == (16000 * p * (b - p)) \div (5 * b * b - 4 * p * (b - p))
    IN  IF 2 * a <= b THEN half(2 * a) ELSE -half(2 * a - b)

---------------------------------------------------------------------------
(* Program constants *)

DEFAULT_SPEEDS == [Run |-> 10000, Bike |-> 25000, Walk |-> 5000]

ELEVATION_PROFILES ==
    [flat |-> [min |-> 0, max |-> 10],
     hilly |-> [min |-> 20, max |-> 50],
     mountainous |-> [min |-> 50, max |-> 100]]

BATCH_SIZE == 100

maxRetries == 2

RateLimitWaitMs == 5000

---------------------------------------------------------------------------
(* Coordinates of the model: [lng, lat] pairs in micro-degrees *)

CoordA == <<-73985700, 40782900>>

CoordB == <<-73985700, 40784900>>

Coords == {CoordA, CoordB}

\* haversineDistance (R = 6371 km) between two {lat, lng} points of the model,
\* tabulated in millimetres: 0.002 degrees of latitude are 222.390 m
haversineDistance(lat1, lng1, lat2, lng2) ==
    IF lng1 = lng2
    THEN (Abs(lat2 - lat1) * 222390) \div 2000
    ELSE 0

\* calculateSegmentDistance: turf distance between two [lng, lat] pairs
\* (haversine, R = 6371.0088 km), equal to the millimetre on the model's points
calculateSegmentDistance(coord1, coord2) ==
    haversineDistance(coord1[2], coord1[1], coord2[2], coord2[1])

RECURSIVE SumSegments(_, _)
SumSegments(cs, k) ==
    IF k >= Len(cs) THEN 0
    ELSE calculateSegmentDistance(cs[k], cs[k + 1]) + SumSegments(cs, k + 1)

calculateCoordinatesDistance(coordinates) == SumSegments(coordinates, 1)

RECURSIVE SumHaversine(_, _)
SumHaversine(ps, k) ==
    IF k >= Len(ps) THEN 0
    ELSE haversineDistance(ps[k].lat, ps[k].lng, ps[k + 1].lat, ps[k + 1].lng)
         + SumHaversine(ps, k + 1)

calculateRouteDistance(points) == SumHaversine(points, 1)

---------------------------------------------------------------------------
(* Pure functions of the realistic generator *)

PacingPatterns ==
    [Run |-> [warmup |-> 8500, peak |-> 10800, fatigue |-> 9200],
     Bike |-> [warmup |-> 9000, peak |-> 10500, fatigue |-> 9500],
     Walk |-> [warmup |-> 9500, peak |-> 10200, fatigue |-> 9800]]

\* variant: the peak phase lasts to the end of the curve
PacingMultiplierPeakHeld(i, pointCount, activityType) ==
    LET pattern == PacingPatterns[activityType]
        d == pointCount - 1
    IN  IF d = 0 THEN NaN
        ELSE IF 5 * i < d
        THEN pattern.warmup + ((10000 - pattern.warmup) * 5 * i) \div d
        ELSE pattern.peak + (3 * Sin1000((10 * i - 2 * d) % (5 * d), 5 * d)) \div 10

\* multiplier of index i (0-based) of generatePacingCurve, progress = i/(pointCount-1)
PacingMultiplier(i, pointCount, activityType) ==
    LET pattern == PacingPatterns[activityType]
        d == pointCount - 1
    IN  IF d = 0 THEN NaN
        ELSE IF 5 * i < d
        THEN pattern.warmup + ((10000 - pattern.warmup) * 5 * i) \div d
        ELSE IF 10 * i < 7 * d
        THEN pattern.peak + (3 * Sin1000(10 * i - 2 * d, 5 * d)) \div 10
        ELSE pattern.peak
             - ((pattern.peak - pattern.fatigue) * (10 * i - 7 * d)) \div (3 * d)

generatePacingCurve(pointCount, activityType) ==
    [k \in 1..pointCount |-> PacingMultiplier(k - 1, pointCount, activityType)]

\* variant: only the lower clamp is applied
addSpeedVariationNoCeiling(baseSpeed, variationFactor, gaussian) ==
    LET speedWithVariation == (baseSpeed * (10000 + gaussian * variationFactor)) \div 10000
        minSpeed == (baseSpeed * 2) \div 10
    IN  Max(minSpeed, speedWithVariation)

\* variant: the varied speed is returned without the clamp
addSpeedVariationUnclamped(baseSpeed, variationFactor, gaussian) ==
    (baseSpeed * (10000 + gaussian * variationFactor)) \div 10000

\* addSpeedVariation with the Box-Muller sample passed in (gaussian in 1/100,
\* variationFactor in 1/100)
addSpeedVariation(baseSpeed, variationFactor, gaussian) ==
    LET speedWithVariation == (baseSpeed * (10000 + gaussian * variationFactor)) \div 10000
        minSpeed == (baseSpeed * 2) \div 10
        maxSpeed == (baseSpeed * 18) \div 10
    IN  Max(minSpeed, Min(maxSpeed, speedWithVariation))

\* calculateRealisticElevation with the (Math.random() - 0.5) * 20 term passed in;
\* progressRatio = totalDistance / totalRouteDistance is 0/0 = NaN on a route of
\* length 0, and Math.max(0, NaN) is NaN
calculateRealisticElevation(currentElevation, travelled, totalElevationGain, totalRouteDistance, variation) ==
    IF totalRouteDistance = 0 \/ currentElevation = NaN THEN NaN
    ELSE LET progress1000 == (travelled * 1000) \div totalRouteDistance
             targetElevation == 100000 + totalElevationGain * progress1000
             newElevation == (currentElevation * 7 + (targetElevation + variation) * 3) \div 10
         IN  Max(0, newElevation)

---------------------------------------------------------------------------
(* Pure functions of the legacy generator *)

\* calculateElevation with the (Math.random() - 0.5) * 10 term passed in; whole metres
calculateElevation(pointIndex, totalPoints, totalElevationGain, elevationProfile, baseElevation, noise) ==
    LET profileSettings == ELEVATION_PROFILES[elevationProfile]
        d == totalPoints - 1
        elevationVariation == profileSettings.min * 1000
            + (profileSettings.max - profileSettings.min) * Sin1000(pointIndex, d)
        cumulativeGain == (totalElevationGain * 1000 * pointIndex) \div d
    IN  MathRound(baseElevation * 1000 + cumulativeGain + elevationVariation + noise, 1000)

\* variant: the moderate-downhill test comes before the steep-downhill test
calculateSpeedAdjustmentModerateFirst(elevationChange, distance) ==
    IF distance = 0 THEN 10
    ELSE IF elevationChange * 20000 > distance THEN 6
    ELSE IF elevationChange * 50000 > distance THEN 8
    ELSE IF elevationChange * 50000 < -distance THEN 11
    ELSE IF elevationChange * 20000 < -distance THEN 12
    ELSE 10

\* calculateSpeedAdjustmentForElevation, result in tenths;
\* gradient = (elevationChange / 1000) / distance with distance in km
calculateSpeedAdjustmentForElevation(elevationChange, distance) ==
    IF distance = 0 THEN 10
    ELSE IF elevationChange * 20000 > distance THEN 6
    ELSE IF elevationChange * 50000 > distance THEN 8
    ELSE IF elevationChange * 20000 < -distance THEN 12
    ELSE IF elevationChange * 50000 < -distance THEN 11
    ELSE 10

---------------------------------------------------------------------------
(* Elevation lookup *)

\* the value of position k (1-based) of a periodic pattern
PatternAt(pat, k) == pat[((k - 1) % Len(pat)) + 1]

\* callOpenElevationAPI on one proxy response.  A response is
\*   [kind |-> "throw"]                      fetch rejects (timeout, transport)
\*   [kind |-> "http", status |-> s]          a non-OK status
\*   [kind |-> "body", results |-> r]         a 200 body; r = <<>>-wrapped list of
\*                                            raw elevations (tenths of a metre),
\*                                            or <<>> when results is no array
\* The value is [ok |-> TRUE, value |-> points with ele] or
\* [ok |-> FALSE, is429 |-> whether the error message contains "429"].
callOpenElevationAPI(points, response) ==
    IF response.kind = "throw" THEN [ok |-> FALSE, is429 |-> FALSE]
    ELSE IF response.kind = "http" THEN [ok |-> FALSE, is429 |-> response.status = 429]
    ELSE IF response.results = <<>> THEN [ok |-> FALSE, is429 |-> FALSE]
    ELSE IF Len(response.results[1]) # Len(points)
    THEN [ok |-> FALSE, is429 |-> Len(response.results[1]) = 429]
    ELSE [ok |-> TRUE,
          value |-> [k \in 1..Len(points) |->
                        [lat |-> points[k].lat, lng |-> points[k].lng,
                         ele |-> MathRound(response.results[1][k], 10)]]]

\* generateFallbackElevation with the (Math.random() - 0.5) * 100 terms passed in
\* as a periodic pattern; sin(lng) is taken at the whole degree
generateFallbackElevation(points, draws) ==
    [k \in 1..Len(points) |->
        LET point == points[k]
            latVariation == (Abs(point.lat) * 2) \div 1000
            lngDeg == Abs(point.lng) \div 1000000
            sinLng == IF point.lng >= 0 THEN Sin1000(lngDeg % 360, 360)
                      ELSE -Sin1000(lngDeg % 360, 360)
            lngVariation == sinLng * 50
            routeProgression == (k - 1) * 2000
            elevation == Max(0, 100000 + latVariation + lngVariation
                                + PatternAt(draws, k) + routeProgression)
        IN  [lat |-> point.lat, lng |-> point.lng, ele |-> MathRound(elevation, 1000)]]

---------------------------------------------------------------------------
(* Inputs and random draws *)

StartTime == 1000

Activities == {"Run", "Bike", "Walk"}

Profiles == {"flat", "hilly", "mountainous"}

RECURSIVE SeqsUpTo(_, _)
SeqsUpTo(S, n) ==
    IF n = 0 THEN {<<>>}
    ELSE LET shorter == SeqsUpTo(S, n - 1)
         IN  shorter \cup {Append(q, x) : q \in {r \in shorter : Len(r) = n - 1}, x \in S}

CoordSeqs == SeqsUpTo(Coords, MaxPoints)

\* every combination of options of a generateGpx call over the model's values
AllOptions ==
    [activityType : Activities,
     coordinates : CoordSeqs,
     startTime : {StartTime},
     averageSpeedKmh : {<<>>, <<0>>, <<10000>>},
     averagePaceMinPerKm : {<<>>, <<0>>, <<500>>},
     elevationGain : {<<>>, <<0>>, <<50>>},
     elevationProfile : Profiles,
     addNoise : BOOLEAN,
     pauseDuration : {0, 10},
     useRealisticTiming : BOOLEAN,
     samplingRateSeconds : {1000, 4000},
     speedVariation : {0, 15},
     addElevation : BOOLEAN,
     useRealElevation : BOOLEAN]

\* Box-Muller samples (1/100): one from the far lower tail and one within a
\* standard deviation; the sample is finite, i.e. Math.random() did not return
\* exactly 0 for u1
GaussianDraws == {-600, 100}

\* (Math.random() - 0.5) * 20 in millimetres
RealisticVariationDraws == {-10000, 9999}

\* 50 + Math.random() * 150 in millimetres
StartingElevationDraws == {50000, 199999}

\* (Math.random() - 0.5) * 10 in millimetres
ElevationNoiseDraws == {-5000, 4999}

\* 0.8 + Math.random() * 0.4 in 1/1000
LegacyVariationDraws == {800, 1199}

\* 0.5 + Math.random() * 0.5 in 1/1000
PauseFractionDraws == {500, 999}

\* (Math.random() - 0.5) * 100 in millimetres, one draw per point of the batch,
\* given as a pattern that repeats along the batch
FallbackDraws == {<<-50000, 49999>>, <<49999, -50000>>}

\* raw elevations a lookup can answer, in tenths of a metre, one per point of the
\* batch, given as a pattern that repeats along the batch
RawElevations == {<<-125, 0, 74>>, <<74, -125, 0>>, <<0, 74, -125>>}

Expand(pat, n) == [k \in 1..n |-> PatternAt(pat, k)]

\* proxy responses to a request of n points
Responses(n) ==
    {[kind |-> "throw", status |-> 0, results |-> <<>>],
     [kind |-> "http", status |-> 429, results |-> <<>>],
     [kind |-> "http", status |-> 500, results |-> <<>>],
     [kind |-> "body", status |-> 200, results |-> <<>>]}
    \cup {[kind |-> "body", status |-> 200, results |-> <<Expand(pat, n)>>] :
             pat \in RawElevations}
    \cup {[kind |-> "body", status |-> 200, results |-> <<Expand(<<74>>, n - 1)>>]}

---------------------------------------------------------------------------
(* generateGpx *)

\* variant: the activity's default is Run's for every activity
ResolveSpeedRunDefault(o) ==
    IF Truthy(o.averageSpeedKmh) THEN o.averageSpeedKmh[1]
    ELSE IF Truthy(o.averagePaceMinPerKm) THEN 6000000 \div o.averagePaceMinPerKm[1]
    ELSE DEFAULT_SPEEDS["Run"]

\* variant: the pace is looked at before the speed
ResolveSpeedPaceFirst(o) ==
    IF Truthy(o.averagePaceMinPerKm) THEN 6000000 \div o.averagePaceMinPerKm[1]
    ELSE IF Truthy(o.averageSpeedKmh) THEN o.averageSpeedKmh[1]
    ELSE DEFAULT_SPEEDS[o.activityType]

\* the base speed resolved from the options (m/h)
ResolveSpeed(o) ==
    IF Truthy(o.averageSpeedKmh) THEN o.averageSpeedKmh[1]
    ELSE IF Truthy(o.averagePaceMinPerKm) THEN 6000000 \div o.averagePaceMinPerKm[1]
    ELSE DEFAULT_SPEEDS[o.activityType]

\* variant: the pair is read as [lat, lng]
ToPointsSwapped(coordinates) ==
    [k \in 1..Len(coordinates) |-> [lat |-> coordinates[k][1], lng |-> coordinates[k][2]]]

\* coordinates.map(([lng, lat]) => ({ lat, lng }))
ToPoints(coordinates) ==
    [k \in 1..Len(coordinates) |-> [lat |-> coordinates[k][2], lng |-> coordinates[k][1]]]

\* the addElevation / elevationGain options generateGpx hands to the realistic generator
RealisticAddElevation(o) == o.addElevation \/ o.elevationGain # <<>>

RealisticElevationGain(o) == IF o.elevationGain = <<>> THEN 0 ELSE o.elevationGain[1]

\* generateGpx up to the entry of the selected generator
GenerateGpxCall(O) ==
    /\ pc = "idle"
    /\ \E o \in O :
        /\ options' = o
        /\ speedKmh' = ResolveSpeed(o)
        /\ IF o.useRealisticTiming
           THEN pc' = "realistic" /\ rpoints' = ToPoints(o.coordinates)
           ELSE pc' = "legacy" /\ rpoints' = <<>>
    /\ outcome' = "pending"
    /\ UNCHANGED <<segments, result, idx, currentTime, totalDistance, cumulativeElevation,
                   pointsWithElevation, caller, fetchVars>>

\* a call of generateGpx by a caller outside the model
GenerateGpx(O) == GenerateGpxCall(O) /\ UNCHANGED restVars

---------------------------------------------------------------------------
(* generateTrackPoints (legacy generator) *)

legacyCumulativeElevation == 0

\* coordinates.length < 2: every coordinate is stamped startTime
LegacyDegenerate ==
    /\ pc = "legacy"
    /\ Len(options.coordinates) < 2
    /\ result' = [k \in 1..Len(options.coordinates) |->
                    [lat |-> options.coordinates[k][2], lng |-> options.coordinates[k][1],
                     time |-> options.startTime, speed |-> <<>>, elevation |-> <<>>]]
    /\ pc' = "done"
    /\ outcome' = "resolved"
    /\ UNCHANGED restVars
    /\ UNCHANGED <<segments, options, speedKmh, rpoints, idx, currentTime, totalDistance,
                   cumulativeElevation, pointsWithElevation, caller, fetchVars>>

\* variant: the running clock starts at the epoch instead of startTime
LegacyStartEpoch ==
    /\ pc = "legacy"
    /\ Len(options.coordinates) >= 2
    /\ result' = <<>>
    /\ currentTime' = 0
    /\ totalDistance' = 0
    /\ idx' = 0
    /\ segments' = <<>>
    /\ pc' = "legacy_loop"
    /\ UNCHANGED restVars
    /\ UNCHANGED <<options, speedKmh, rpoints, cumulativeElevation, pointsWithElevation,
                   caller, fetchVars, outcome>>

LegacyStart ==
    /\ pc = "legacy"
    /\ Len(options.coordinates) >= 2
    /\ result' = <<>>
    /\ currentTime' = options.startTime
    /\ totalDistance' = 0
    /\ idx' = 0
    /\ segments' = <<>>
    /\ pc' = "legacy_loop"
    /\ UNCHANGED restVars
    /\ UNCHANGED <<options, speedKmh, rpoints, cumulativeElevation, pointsWithElevation,
                   caller, fetchVars, outcome>>

\* variant: the grade factor is applied whether or not addNoise is set
LegacySegmentSpeedGraded(i, elevation, segmentDistance, variation) ==
    LET varied == IF options.addNoise THEN (speedKmh * variation) \div 1000 ELSE speedKmh
    IN  IF elevation # <<>> /\ i >= 1 /\ result[i].elevation # <<>>
        THEN LET elevationChange == (elevation[1] - result[i].elevation[1]) \div 1000
             IN  (varied * calculateSpeedAdjustmentForElevation(
                               elevationChange, segmentDistance)) \div 10
        ELSE varied

\* speed of the segment that starts at point i (m/h)
LegacySegmentSpeed(i, elevation, segmentDistance, variation) ==
    IF ~options.addNoise THEN speedKmh
    ELSE LET varied == (speedKmh * variation) \div 1000
         IN  IF elevation # <<>> /\ i >= 1 /\ result[i].elevation # <<>>
             THEN LET elevationChange == (elevation[1] - result[i].elevation[1]) \div 1000
                  IN  (varied * calculateSpeedAdjustmentForElevation(
                                    elevationChange, segmentDistance)) \div 10
             ELSE varied

\* variant: the sampling-rate floor is applied to the segment time
LegacyAdvanceFloored(i, elevation, variation, pauseHit, pauseFraction) ==
    LET coordinates == options.coordinates
        segmentDistance == calculateSegmentDistance(coordinates[i + 1], coordinates[i + 2])
        segmentSpeedKmh == LegacySegmentSpeed(i, elevation, segmentDistance, variation)
        segmentTimeMs == (segmentDistance * 3600) \div segmentSpeedKmh
        pauseMs == IF options.pauseDuration > 0 /\ pauseHit
                   THEN options.pauseDuration * pauseFraction
                   ELSE 0
    IN  Max(segmentTimeMs, options.samplingRateSeconds) + pauseMs

\* milliseconds from point i to point i + 1: segmentTimeMs + pauseMs
LegacyAdvance(i, elevation, variation, pauseHit, pauseFraction) ==
    LET coordinates == options.coordinates
        segmentDistance == calculateSegmentDistance(coordinates[i + 1], coordinates[i + 2])
        segmentSpeedKmh == LegacySegmentSpeed(i, elevation, segmentDistance, variation)
        segmentTimeMs == (segmentDistance * 3600) \div segmentSpeedKmh
        pauseMs == IF options.pauseDuration > 0 /\ pauseHit
                   THEN options.pauseDuration * pauseFraction
                   ELSE 0
    IN  segmentTimeMs + pauseMs

\* one iteration of the loop over the coordinates
LegacyIteration ==
    /\ pc = "legacy_loop"
    /\ idx < Len(options.coordinates)
    /\ \E noise \in ElevationNoiseDraws, variation \in LegacyVariationDraws,
          pauseHit \in BOOLEAN, pauseFraction \in PauseFractionDraws :
        LET coordinates == options.coordinates
            n == Len(coordinates)
            elevation ==
                IF options.elevationGain # <<>> \/ options.elevationProfile # "flat"
                THEN <<1000 * calculateElevation(idx, n,
                          IF Truthy(options.elevationGain) THEN options.elevationGain[1] ELSE 0,
                          options.elevationProfile, legacyCumulativeElevation, noise)>>
                ELSE <<>>
            last == idx = n - 1
        IN  /\ result' = Append(result,
                    [lat |-> coordinates[idx + 1][2], lng |-> coordinates[idx + 1][1],
                     time |-> currentTime, speed |-> <<>>, elevation |-> elevation])
            /\ totalDistance' = IF last THEN totalDistance
                                ELSE totalDistance + calculateSegmentDistance(
                                        coordinates[idx + 1], coordinates[idx + 2])
            /\ currentTime' = IF last THEN currentTime
                              ELSE currentTime + LegacyAdvance(idx, elevation, variation,
                                                               pauseHit, pauseFraction)
            /\ segments' = IF last THEN segments
                           ELSE Append(segments,
                                    [speed |-> LegacySegmentSpeed(idx, elevation,
                                                  calculateSegmentDistance(
                                                      coordinates[idx + 1], coordinates[idx + 2]),
                                                  variation),
                                     draw |-> IF options.addNoise THEN <<variation>>
                                              ELSE <<>>])
    /\ idx' = idx + 1
    /\ UNCHANGED restVars
    /\ UNCHANGED <<pc, options, speedKmh, rpoints, cumulativeElevation, pointsWithElevation,
                   caller, fetchVars, outcome>>

\* the loop is over: generateGpx serialises the points and resolves
LegacyReturn ==
    /\ pc = "legacy_loop"
    /\ idx = Len(options.coordinates)
    /\ pc' = "done"
    /\ outcome' = "resolved"
    /\ UNCHANGED restVars
    /\ UNCHANGED <<genVars, rpoints, caller, fetchVars>>

---------------------------------------------------------------------------
(* addElevationToPoints / fetchElevationBatch *)

Event(ev, n, ms) == [ev |-> ev, start |-> batchStart, n |-> n, ms |-> ms]

\* variant: the slice runs one point too far
BatchOverlong == SubSeq(rpoints, batchStart + 1, Min(batchStart + BATCH_SIZE + 1, Len(rpoints)))

\* points.slice(i, i + BATCH_SIZE)
Batch == SubSeq(rpoints, batchStart + 1, Min(batchStart + BATCH_SIZE, Len(rpoints)))

\* loop head of addElevationToPoints with a batch left: fetchElevationBatch starts
\* and its attempt 0 sends the request at once
StartBatch ==
    /\ pc = "batch"
    /\ batchStart < Len(rpoints)
    /\ attempt' = 0
    /\ log' = Append(log, Event("call", Len(Batch), 0))
    /\ pc' = "await_api"
    /\ UNCHANGED restVars
    /\ UNCHANGED <<genVars, rpoints, caller, batchStart, enrichedPoints, outcome>>

\* loop head of addElevationToPoints with no batch left: return enrichedPoints
AddElevationReturn ==
    /\ pc = "batch"
    /\ batchStart >= Len(rpoints)
    /\ IF caller = "realistic"
       THEN /\ pointsWithElevation' = enrichedPoints
            /\ pc' = "first"
            /\ outcome' = outcome
       ELSE /\ pointsWithElevation' = pointsWithElevation
            /\ pc' = "done"
            /\ outcome' = "resolved"
    /\ UNCHANGED restVars
    /\ UNCHANGED <<segments, options, speedKmh, rpoints, result, idx, currentTime, totalDistance,
                   cumulativeElevation, caller, fetchVars>>

\* the batch is answered: enrichedPoints.push(...batchResults) and i += BATCH_SIZE
FinishBatch(batchResults, events) ==
    /\ enrichedPoints' = enrichedPoints \o batchResults
    /\ batchStart' = batchStart + BATCH_SIZE
    /\ log' = log \o events
    /\ attempt' = attempt
    /\ pc' = "batch"

\* variant: one retry too many
NextAttemptExtraRetry(events) ==
    IF attempt <= maxRetries
    THEN /\ attempt' = attempt + 1
         /\ log' = (log \o events) \o <<Event("wait", Len(Batch), 1000 * (attempt + 1))>>
         /\ pc' = "backoff"
         /\ UNCHANGED <<batchStart, enrichedPoints>>
    ELSE \E draws \in FallbackDraws :
            FinishBatch(generateFallbackElevation(Batch, draws),
                        events \o <<Event("fallback", Len(Batch), 0)>>)

\* after a failed attempt (and its rate-limit wait): attempt++, then either the
\* backoff of the next attempt starts or the loop ends with the fallback
NextAttempt(events) ==
    IF attempt + 1 <= maxRetries
    THEN /\ attempt' = attempt + 1
         /\ log' = (log \o events) \o <<Event("wait", Len(Batch), 1000 * (attempt + 1))>>
         /\ pc' = "backoff"
         /\ UNCHANGED <<batchStart, enrichedPoints>>
    ELSE \E draws \in FallbackDraws :
            FinishBatch(generateFallbackElevation(Batch, draws),
                        events \o <<Event("fallback", Len(Batch), 0)>>)

\* the request is answered and callOpenElevationAPI returns its result
ApiSuccess ==
    /\ pc = "await_api"
    /\ \E response \in Responses(Len(Batch)) :
        LET r == callOpenElevationAPI(Batch, response)
        IN  /\ r.ok
            /\ FinishBatch(r.value, <<Event("ok", Len(Batch), 0)>>)
    /\ UNCHANGED restVars
    /\ UNCHANGED <<genVars, rpoints, caller, outcome>>

\* variant: no catch block, the error of the first failed attempt rejects the call
ApiFailureUncaught ==
    /\ pc = "await_api"
    /\ \E response \in Responses(Len(Batch)) : ~callOpenElevationAPI(Batch, response).ok
    /\ pc' = "done"
    /\ outcome' = "rejected"
    /\ UNCHANGED restVars
    /\ UNCHANGED <<genVars, rpoints, caller, fetchVars>>

\* the request fails or callOpenElevationAPI throws: the catch block
ApiFailure ==
    /\ pc = "await_api"
    /\ \E response \in Responses(Len(Batch)) :
        LET r == callOpenElevationAPI(Batch, response)
        IN  /\ ~r.ok
            /\ IF r.is429
               THEN /\ log' = Append(log, Event("wait", Len(Batch), RateLimitWaitMs))
                    /\ pc' = "rate_wait"
                    /\ UNCHANGED <<attempt, batchStart, enrichedPoints>>
               ELSE NextAttempt(<<>>)
    /\ UNCHANGED restVars
    /\ UNCHANGED <<genVars, rpoints, caller, outcome>>

\* delay(5000) of the catch block is over
RateLimitWaitDone ==
    /\ pc = "rate_wait"
    /\ NextAttempt(<<>>)
    /\ UNCHANGED restVars
    /\ UNCHANGED <<genVars, rpoints, caller, outcome>>

\* delay(1000 * attempt) is over: the retry sends its request
BackoffDone ==
    /\ pc = "backoff"
    /\ log' = Append(log, Event("call", Len(Batch), 0))
    /\ pc' = "await_api"
    /\ UNCHANGED restVars
    /\ UNCHANGED <<genVars, rpoints, caller, batchStart, attempt, enrichedPoints, outcome>>

\* point j (0-based) of the lists handed to addElevationToPoints directly
RoutePoint(j) == [lat |-> 40782900 + 10 * j, lng |-> -73985700]

\* lengths of those lists: empty, one point, and around each multiple of the batch size
PointCounts ==
    {0, 1} \cup {b * BATCH_SIZE + d : b \in 1..(MaxBatches - 1), d \in {0, 1}}
           \cup {MaxBatches * BATCH_SIZE - 1, MaxBatches * BATCH_SIZE}

\* a direct call of addElevationToPoints
AddElevationToPoints ==
    /\ pc = "idle"
    /\ \E m \in PointCounts :
        /\ rpoints' = [k \in 1..m |-> RoutePoint(k - 1)]
        /\ IF m = 0
           THEN pc' = "done" /\ outcome' = "resolved"
           ELSE pc' = "batch" /\ outcome' = "pending"
    /\ caller' = "direct"
    /\ batchStart' = 0
    /\ enrichedPoints' = <<>>
    /\ log' = <<>>
    /\ UNCHANGED restVars
    /\ UNCHANGED <<genVars, attempt>>

---------------------------------------------------------------------------
(* generateRealisticTimestamps (realistic generator) *)

\* points.length < 2
RealisticDegenerate ==
    /\ pc = "realistic"
    /\ Len(rpoints) < 2
    /\ result' = [k \in 1..Len(rpoints) |->
                    [lat |-> rpoints[k].lat, lng |-> rpoints[k].lng,
                     time |-> options.startTime, speed |-> <<speedKmh>>,
                     elevation |-> IF RealisticAddElevation(options)
                                   THEN <<100000>> ELSE <<>>]]
    /\ pc' = "done"
    /\ outcome' = "resolved"
    /\ UNCHANGED restVars
    /\ UNCHANGED <<segments, options, speedKmh, rpoints, idx, currentTime, totalDistance,
                   cumulativeElevation, pointsWithElevation, caller, fetchVars>>

UsesLookup == RealisticAddElevation(options) /\ options.useRealElevation

\* addElevation && useRealElevation: await addElevationToPoints(points).
\* addElevationToPoints never rejects (fetchElevationBatch catches every error of
\* the lookup), so the catch block around this await has no transition.
RealisticFetchElevation ==
    /\ pc = "realistic"
    /\ Len(rpoints) >= 2
    /\ UsesLookup
    /\ caller' = "realistic"
    /\ batchStart' = 0
    /\ enrichedPoints' = <<>>
    /\ log' = <<>>
    /\ pc' = "batch"
    /\ UNCHANGED restVars
    /\ UNCHANGED <<genVars, rpoints, attempt, outcome>>

\* set-up of the loop and the first point
RealisticFirstPoint ==
    /\ \/ pc = "realistic" /\ Len(rpoints) >= 2 /\ ~UsesLookup
       \/ pc = "first"
    /\ \E startingElevation \in StartingElevationDraws :
        result' = <<[lat |-> rpoints[1].lat, lng |-> rpoints[1].lng,
                     time |-> options.startTime, speed |-> <<speedKmh>>,
                     elevation |-> IF RealisticAddElevation(options)
                                   THEN <<startingElevation>> ELSE <<>>]>>
    /\ currentTime' = options.startTime
    /\ totalDistance' = 0
    /\ cumulativeElevation' = 0
    /\ idx' = 1
    /\ segments' = <<>>
    /\ pc' = "realistic_loop"
    /\ UNCHANGED restVars
    /\ UNCHANGED <<options, speedKmh, rpoints, pointsWithElevation, caller, fetchVars,
                   outcome>>

\* pointsWithElevation[i]?.ele || 100, in millimetres
LookedUpElevation(i) ==
    IF i + 1 <= Len(pointsWithElevation) /\ Truthy(<<pointsWithElevation[i + 1].ele>>)
    THEN 1000 * pointsWithElevation[i + 1].ele
    ELSE 100000

\* variant: an uphill multiplier is applied on top of pacing and variation
RealisticSegmentSpeedGraded(i, gaussian) ==
    LET pacingCurve == generatePacingCurve(Len(rpoints), options.activityType)
        baseSpeed == (speedKmh * pacingCurve[i + 1]) \div 10000
        speedWithVariation == addSpeedVariation(baseSpeed, options.speedVariation, gaussian)
    IN  IF RealisticElevationGain(options) > 0
        THEN (speedWithVariation * 8) \div 10
        ELSE speedWithVariation

\* speed of the segment that ends at point i
RealisticSegmentSpeed(i, gaussian) ==
    LET pacingCurve == generatePacingCurve(Len(rpoints), options.activityType)
        baseSpeed == (speedKmh * pacingCurve[i + 1]) \div 10000
    IN  addSpeedVariation(baseSpeed, options.speedVariation, gaussian)

\* variant: the segment time is used without the floor
RealisticAdvanceNoFloor(i, speedWithVariation) ==
    LET segmentDistance == haversineDistance(rpoints[i].lat, rpoints[i].lng,
                                             rpoints[i + 1].lat, rpoints[i + 1].lng)
    IN  (segmentDistance * 3600) \div speedWithVariation

\* milliseconds from point i - 1 to point i: Math.max(segmentTimeMs, minTimeMs)
RealisticAdvance(i, speedWithVariation) ==
    LET segmentDistance == haversineDistance(rpoints[i].lat, rpoints[i].lng,
                                             rpoints[i + 1].lat, rpoints[i + 1].lng)
        segmentTimeMs == (segmentDistance * 3600) \div speedWithVariation
        minTimeMs == options.samplingRateSeconds
    IN  Max(segmentTimeMs, minTimeMs)

\* one iteration of the loop over points 1..n-1
RealisticIteration ==
    /\ pc = "realistic_loop"
    /\ idx < Len(rpoints)
    /\ \E gaussian \in GaussianDraws, variation \in RealisticVariationDraws :
        LET segmentDistance == haversineDistance(rpoints[idx].lat, rpoints[idx].lng,
                                                 rpoints[idx + 1].lat, rpoints[idx + 1].lng)
            travelled == totalDistance + segmentDistance
            speedWithVariation == RealisticSegmentSpeed(idx, gaussian)
            time == currentTime + RealisticAdvance(idx, speedWithVariation)
            simulated == calculateRealisticElevation(cumulativeElevation, travelled,
                             RealisticElevationGain(options),
                             calculateRouteDistance(rpoints), variation)
            looked == options.useRealElevation /\ Len(pointsWithElevation) > 0
            elevation == IF ~RealisticAddElevation(options) THEN <<>>
                         ELSE IF looked THEN <<LookedUpElevation(idx)>>
                         ELSE <<simulated>>
        IN  /\ totalDistance' = travelled
            /\ currentTime' = time
            /\ cumulativeElevation' = IF RealisticAddElevation(options) /\ ~looked
                                      THEN simulated ELSE cumulativeElevation
            /\ result' = Append(result,
                    [lat |-> rpoints[idx + 1].lat, lng |-> rpoints[idx + 1].lng,
                     time |-> time, speed |-> <<speedWithVariation>>,
                     elevation |-> elevation])
            /\ segments' = Append(segments,
                    [speed |-> speedWithVariation, draw |-> <<gaussian>>,
                     variation |-> IF RealisticAddElevation(options) /\ ~looked
                                   THEN <<variation>> ELSE <<>>])
    /\ idx' = idx + 1
    /\ UNCHANGED restVars
    /\ UNCHANGED <<pc, options, speedKmh, rpoints, pointsWithElevation, caller, fetchVars,
                   outcome>>

\* the loop is over: generateRealisticGPX serialises the points and resolves
RealisticReturn ==
    /\ pc = "realistic_loop"
    /\ idx = Len(rpoints)
    /\ pc' = "done"
    /\ outcome' = "resolved"
    /\ UNCHANGED restVars
    /\ UNCHANGED <<genVars, rpoints, caller, fetchVars>>

---------------------------------------------------------------------------
(* GPX serialisation: escapeXml, generateGPXXML, timestampedPointsToGPX *)

\* A string is a sequence of one-character strings.
Chars == {"&", "<", ">", "\"", "'", "a", ";"}

Strings == SeqsUpTo(Chars, MaxLen)

RECURSIVE ReplaceAll(_, _, _)
\* text.replace(/ch/g, by)
ReplaceAll(text, ch, by) ==
    IF text = <<>> THEN <<>>
    ELSE (IF Head(text) = ch THEN by ELSE <<Head(text)>>) \o ReplaceAll(Tail(text), ch, by)

\* variant: the ampersand is replaced after the other four characters
escapeXmlAmpLast(text) ==
    LET lt == ReplaceAll(text, "<", <<"&", "l", "t", ";">>)
        gt == ReplaceAll(lt, ">", <<"&", "g", "t", ";">>)
        quot == ReplaceAll(gt, "\"", <<"&", "q", "u", "o", "t", ";">>)
        apos == ReplaceAll(quot, "'", <<"&", "a", "p", "o", "s", ";">>)
    IN  ReplaceAll(apos, "&", <<"&", "a", "m", "p", ";">>)

\* five replace passes, the ampersand first
escapeXml(text) ==
    LET amp == ReplaceAll(text, "&", <<"&", "a", "m", "p", ";">>)
        lt == ReplaceAll(amp, "<", <<"&", "l", "t", ";">>)
        gt == ReplaceAll(lt, ">", <<"&", "g", "t", ";">>)
        quot == ReplaceAll(gt, "\"", <<"&", "q", "u", "o", "t", ";">>)
    IN  ReplaceAll(quot, "'", <<"&", "a", "p", "o", "s", ";">>)

\* A document is the sequence of its tags and texts in document order.  A number
\* written into the document is <<v, d>>: the decimal with d fraction digits whose
\* digits are those of the integer v.
Open(tag, attrs) == [t |-> "open", tag |-> tag, attrs |-> attrs, text |-> <<>>, num |-> <<>>]

Close(tag) == [t |-> "close", tag |-> tag, attrs |-> <<>>, text |-> <<>>, num |-> <<>>]

Text(chars) == [t |-> "text", tag |-> "", attrs |-> <<>>, text |-> chars, num |-> <<>>]

Num(n) == [t |-> "text", tag |-> "", attrs |-> <<>>, text |-> <<>>, num |-> n]

Element(tag, attrs, children) == <<Open(tag, attrs)>> \o children \o <<Close(tag)>>

RECURSIVE Join(_)
\* the concatenation of a sequence of token sequences
Join(parts) == IF parts = <<>> THEN <<>> ELSE Head(parts) \o Join(Tail(parts))

\* date.toISOString() of a time in milliseconds
formatDate(date) == <<date, 3>>

\* x.toFixed(digits) of a coordinate held in micro-degrees, digits >= 6
CoordToFixed(x, digits) == <<x * (IF digits = 7 THEN 10 ELSE 1), digits>>

\* elevation.toFixed(1) of an elevation held in millimetres
ElevationToFixed1(e) == <<IF e = NaN THEN NaN ELSE MathRound(e, 100), 1>>

\* `${elevation}` of an elevation held in millimetres
NumberToString(e) == <<e, 3>>

\* variant: the ele child is written only for a truthy elevation
GpxTrkptTruthy(point) ==
    Element("trkpt", <<CoordToFixed(point.lat, 6), CoordToFixed(point.lng, 6)>>,
        (IF Truthy(point.elevation)
         THEN Element("ele", <<>>, <<Num(NumberToString(point.elevation[1]))>>)
         ELSE <<>>)
        \o Element("time", <<>>, <<Num(formatDate(point.time))>>))

\* one trkpt of generateGPXXML
GpxTrkpt(point) ==
    Element("trkpt", <<CoordToFixed(point.lat, 6), CoordToFixed(point.lng, 6)>>,
        (IF point.elevation # <<>>
         THEN Element("ele", <<>>, <<Num(NumberToString(point.elevation[1]))>>)
         ELSE <<>>)
        \o Element("time", <<>>, <<Num(formatDate(point.time))>>))

generateGPXXML(name, description, activityType, points, startTime) ==
    Element("gpx", <<>>,
        Element("metadata", <<>>,
            Element("name", <<>>, <<Text(escapeXml(name))>>)
            \o Element("desc", <<>>, <<Text(escapeXml(description))>>)
            \o Element("time", <<>>, <<Num(formatDate(startTime))>>))
        \o Element("trk", <<>>,
            Element("name", <<>>, <<Text(escapeXml(name))>>)
            \o Element("type", <<>>, <<Text(escapeXml(activityType))>>)
            \o Element("trkseg", <<>>,
                   Join([k \in 1..Len(points) |-> GpxTrkpt(points[k])]))))

\* one trkpt of timestampedPointsToGPX
TimestampedTrkpt(point) ==
    Element("trkpt", <<CoordToFixed(point.lat, 7), CoordToFixed(point.lng, 7)>>,
        Element("time", <<>>, <<Num(formatDate(point.time))>>)
        \o (IF point.elevation # <<>>
            THEN Element("ele", <<>>, <<Num(ElevationToFixed1(point.elevation[1]))>>)
            ELSE <<>>))

\* now stands for new Date(), used for the metadata time of an empty point list
timestampedPointsToGPX(points, name, description, activityType, now) ==
    Element("gpx", <<>>,
        Element("metadata", <<>>,
            Element("name", <<>>, <<Text(escapeXml(name))>>)
            \o Element("desc", <<>>, <<Text(escapeXml(description))>>)
            \o Element("time", <<>>,
                   <<Num(formatDate(IF Len(points) >= 1 THEN points[1].time ELSE now))>>))
        \o Element("trk", <<>>,
            Element("name", <<>>, <<Text(escapeXml(name))>>)
            \o Element("type", <<>>, <<Text(escapeXml(activityType))>>)
            \o Element("trkseg", <<>>,
                   Join([k \in 1..Len(points) |-> TimestampedTrkpt(points[k])]))))

---------------------------------------------------------------------------
(* Direct calls of the pure functions *)

trackVars == <<pc, rpoints, caller, outcome, genVars, fetchVars>>

\* names and descriptions handed to the serializers
Names == {<<>>, <<"a">>, <<"&", "<">>, <<"\"", "'", ">">>, <<"&", "a", ";">>}

Descriptions == {<<>>, <<"<", "a", ">">>}

ActivityTypes == {<<"R", "u", "n">>, <<"<", "&">>}

\* points handed to the serializers: without elevation, with elevation 0 and with
\* elevation 12.34 m
SerializerPoints ==
    {[lat |-> CoordA[2], lng |-> CoordA[1], time |-> StartTime, speed |-> <<>>,
      elevation |-> <<>>],
     [lat |-> CoordB[2], lng |-> CoordB[1], time |-> StartTime + 4000, speed |-> <<>>,
      elevation |-> <<0>>],
     [lat |-> CoordB[2], lng |-> CoordA[1], time |-> StartTime + 8000, speed |-> <<>>,
      elevation |-> <<12340>>]}

SerializerInputs ==
    [name : Names, description : Descriptions, activityType : ActivityTypes,
     points : SeqsUpTo(SerializerPoints, MaxPoints), startTime : {StartTime}]

BaseSpeeds == {7, 4800, 10000, 12000}

VariationFactors == {0, 15, 100, 250}

\* Box-Muller samples (1/100) from the far tails to the centre
GaussianSamples == {-600, -333, -100, -1, 0, 1, 100, 333, 600}

\* elevation changes in metres and segment distances in millimetres
ElevationChanges == -12..12

SegmentDistances == {0, 100000, 200000, 222390}

CallEscapeXml ==
    /\ pc = "idle" /\ call = "none"
    /\ \E text \in Strings :
        /\ arg' = text
        /\ ret' = escapeXml(text)
    /\ call' = "escapeXml"
    /\ UNCHANGED <<trackVars, storeVars, exportVars>>

CallGenerateGPXXML ==
    /\ pc = "idle" /\ call = "none"
    /\ \E in \in SerializerInputs :
        /\ arg' = in
        /\ ret' = generateGPXXML(in.name, in.description, in.activityType, in.points,
                                 in.startTime)
    /\ call' = "generateGPXXML"
    /\ UNCHANGED <<trackVars, storeVars, exportVars>>

CallTimestampedPointsToGPX ==
    /\ pc = "idle" /\ call = "none"
    /\ \E in \in SerializerInputs :
        /\ arg' = in
        /\ ret' = timestampedPointsToGPX(in.points, in.name, in.description,
                                         in.activityType, in.startTime)
    /\ call' = "timestampedPointsToGPX"
    /\ UNCHANGED <<trackVars, storeVars, exportVars>>

\* point counts of a direct generatePacingCurve call
CurveLengths == 1..MaxCurve

CallGeneratePacingCurve ==
    /\ pc = "idle" /\ call = "none"
    /\ \E pointCount \in CurveLengths, activityType \in Activities :
        /\ arg' = <<pointCount, activityType>>
        /\ ret' = generatePacingCurve(pointCount, activityType)
    /\ call' = "generatePacingCurve"
    /\ UNCHANGED <<trackVars, storeVars, exportVars>>

RECURSIVE IntToString(_)
\* n.toString() of a non-negative integer: its decimal digits
IntToString(n) ==
    LET digit == <<"0", "1", "2", "3", "4", "5", "6", "7", "8", "9">>[(n % 10) + 1]
    IN  IF n < 10 THEN <<digit>> ELSE Append(IntToString(n \div 10), digit)

\* s.padStart(2, '0')
padStart2(s) == IF Len(s) < 2 THEN <<"0">> \o s ELSE s

\* formatPace of a pace held in 1/1000 minutes per kilometre
formatPace(paceMinPerKm) ==
    LET minutes == paceMinPerKm \div 1000
        seconds == MathRound((paceMinPerKm - 1000 * minutes) * 60, 1000)
    IN  IntToString(minutes) \o <<":">> \o padStart2(IntToString(seconds)) \o <<" min/km">>

\* formatDuration of a number of seconds held in tenths of a second
formatDuration(totalSeconds) ==
    LET hours == totalSeconds \div 36000
        minutes == (totalSeconds % 36000) \div 600
        seconds == MathRound(totalSeconds % 600, 10)
    IN  IF hours > 0
        THEN IntToString(hours) \o <<":">> \o padStart2(IntToString(minutes))
             \o <<":">> \o padStart2(IntToString(seconds))
        ELSE IntToString(minutes) \o <<":">> \o padStart2(IntToString(seconds))

\* durations in tenths of a second: whole and fractional seconds of several minutes
\* and hours, 3661 s and 125 s among them
DurationInputs ==
    {36000 * h + 600 * m + s : h \in {0, 1}, m \in {0, 1, 2, 59},
                               s \in {0, 4, 5, 10, 50, 590, 594, 595, 599}}

\* paces in 1/1000 minutes per kilometre, 5.5 and 4.25 among them
PaceInputs == {1000 * m + f : m \in {0, 4, 5}, f \in {0, 250, 500, 991, 992, 999}}

CallFormatDuration ==
    /\ pc = "idle" /\ call = "none"
    /\ \E totalSeconds \in DurationInputs :
        /\ arg' = <<totalSeconds>>
        /\ ret' = formatDuration(totalSeconds)
    /\ call' = "formatDuration"
    /\ UNCHANGED <<trackVars, storeVars, exportVars>>

CallFormatPace ==
    /\ pc = "idle" /\ call = "none"
    /\ \E paceMinPerKm \in PaceInputs :
        /\ arg' = <<paceMinPerKm>>
        /\ ret' = formatPace(paceMinPerKm)
    /\ call' = "formatPace"
    /\ UNCHANGED <<trackVars, storeVars, exportVars>>

CallAddSpeedVariation ==
    /\ pc = "idle" /\ call = "none"
    /\ \E baseSpeed \in BaseSpeeds, variationFactor \in VariationFactors,
          gaussian \in GaussianSamples :
        /\ arg' = <<baseSpeed, variationFactor, gaussian>>
        /\ ret' = addSpeedVariation(baseSpeed, variationFactor, gaussian)
    /\ call' = "addSpeedVariation"
    /\ UNCHANGED <<trackVars, storeVars, exportVars>>

CallCalculateSpeedAdjustmentForElevation ==
    /\ pc = "idle" /\ call = "none"
    /\ \E elevationChange \in ElevationChanges, distance \in SegmentDistances :
        /\ arg' = <<elevationChange, distance>>
        /\ ret' = calculateSpeedAdjustmentForElevation(elevationChange, distance)
    /\ call' = "calculateSpeedAdjustmentForElevation"
    /\ UNCHANGED <<trackVars, storeVars, exportVars>>

---------------------------------------------------------------------------
(* Routing service (lib/routing-service.ts) and waypoint store (lib/store.ts). *)
(* Latitudes and longitudes of this part are in units of 1e-7 degrees.         *)

CACHE_LIMIT == 100

RoutingProfiles == {"driving-car", "cycling-regular", "foot-walking"}

\* x.toFixed(6): the nearest multiple of 1e-6 degrees, ties away from zero
ToFixed6(x) == IF x < 0 THEN -MathRound(-x, 10) ELSE MathRound(x, 10)

getCacheKey(points, profile) ==
    <<profile, [k \in 1..Len(points) |->
                   <<ToFixed6(points[k].lat), ToFixed6(points[k].lng)>>]>>

\* Map operations on the cache, a sequence of entries in insertion order
CacheKeys(c) == {c[k].key : k \in 1..Len(c)}

CacheGet(c, key) == c[CHOOSE k \in 1..Len(c) : c[k].key = key].value

\* Map.set: a present key keeps its position, a new key goes last
CacheSet(c, key, value) ==
    IF key \in CacheKeys(c)
    THEN [k \in 1..Len(c) |-> IF c[k].key = key THEN [key |-> key, value |-> value]
                              ELSE c[k]]
    ELSE Append(c, [key |-> key, value |-> value])

\* variant: the newest entry is deleted when the cache is over its limit
CacheLimitNewest(c) == IF Len(c) > CACHE_LIMIT THEN SubSeq(c, 1, Len(c) - 1) ELSE c

\* if (this.cache.size > 100) delete the first key
CacheLimit(c) == IF Len(c) > CACHE_LIMIT THEN Tail(c) ELSE c

\* turf distance in millimetres
turfDistance(from, to) ==
    haversineDistance(from.lat \div 10, from.lng \div 10, to.lat \div 10, to.lng \div 10)

RECURSIVE SumDistances(_, _)
\* the distance along the first k + 1 points
SumDistances(points, k) ==
    IF k <= 0 THEN 0
    ELSE SumDistances(points, k - 1) + turfDistance(points[k], points[k + 1])

\* the track each profile is snapped to lies at its own offset from the waypoints
ProfileOffset(profile) ==
    CASE profile = "driving-car" -> 1000
      [] profile = "cycling-regular" -> 2000
      [] profile = "foot-walking" -> 3000

\* the result getRoute builds from a successful reply to a request: the snapped
\* coordinates as [lng, lat] and properties.summary.distance in whole metres
RouteFor(points, profile) ==
    [coordinates |-> [k \in 1..Len(points) |->
                         <<points[k].lng + ProfileOffset(profile), points[k].lat>>],
     totalDistance |-> (SumDistances(points, Len(points) - 1)
                            + ProfileOffset(profile)) \div 1000]

\* getRoute up to its first await of the API: null without key or with fewer than
\* two waypoints, the cached result for a cached key, a request otherwise
GetRouteNow(points, profile) ==
    IF ~apiKey \/ Len(points) < 2 THEN [kind |-> "null", value |-> <<>>]
    ELSE IF getCacheKey(points, profile) \in CacheKeys(cache)
         THEN [kind |-> "hit", value |-> <<CacheGet(cache, getCacheKey(points, profile))>>]
         ELSE [kind |-> "request", value |-> <<>>]

\* waypoints.sort((a, b) => a.order - b.order) (stable)
SortByOrder(ws) ==
    LET n == Len(ws)
        before(i, j) == ws[i].order < ws[j].order \/ (ws[i].order = ws[j].order /\ i < j)
    IN  [k \in 1..n |->
            ws[CHOOSE j \in 1..n : Cardinality({i \in 1..n : before(i, j)}) = k - 1]]

\* .map(wp => ({ lat: wp.lat, lng: wp.lng }))
RoutePoints(ws) == [k \in 1..Len(ws) |-> [lat |-> ws[k].lat, lng |-> ws[k].lng]]

\* routePoints.map(p => [p.lng, p.lat])
StraightLine(routePoints) ==
    [k \in 1..Len(routePoints) |-> <<routePoints[k].lng, routePoints[k].lat>>]

\* calculateTotalDistance on store state st: the distance along the waypoints st holds
calculateTotalDistance(st) ==
    [st EXCEPT !.totalDistance =
        IF Len(st.waypoints) < 2 THEN 0
        ELSE SumDistances(SortByOrder(st.waypoints), Len(st.waypoints) - 1)]

\* calculateRoute after its await, on the store state st of that moment:
\* routePoints are the route points taken before the await, routeResponse is the
\* value getRoute resolved with (<<>> for null)
RouteSettled(st, routePoints, routeResponse) ==
    IF routeResponse # <<>>
    THEN [st EXCEPT !.routeGeometry = <<[coordinates |-> routeResponse[1].coordinates,
                                         isRouted |-> TRUE]>>,
                    !.totalDistance = routeResponse[1].totalDistance * 1000,
                    !.isRouting = FALSE]
    ELSE calculateTotalDistance(
             [st EXCEPT !.routeGeometry = <<[coordinates |-> StraightLine(routePoints),
                                             isRouted |-> FALSE]>>,
                        !.isRouting = FALSE])

\* calculateRoute on store state st until control returns to the event loop: the
\* store state it leaves, the request it leaves pending (if any) and whether it
\* has settled.  Without a request the continuation runs before any other event.
calculateRoute(st) ==
    LET routePoints == RoutePoints(SortByOrder(st.waypoints))
        now == GetRouteNow(routePoints, st.routingProfile)
    IN  IF Len(st.waypoints) < 2
        THEN [store |-> [st EXCEPT !.routeGeometry = <<>>, !.totalDistance = 0],
              request |-> <<>>, settled |-> <<>>]
        ELSE IF now.kind = "request"
        THEN [store |-> [st EXCEPT !.isRouting = TRUE],
              request |-> <<[routePoints |-> routePoints, profile |-> st.routingProfile]>>,
              settled |-> <<>>]
        ELSE [store |-> RouteSettled([st EXCEPT !.isRouting = TRUE], routePoints, now.value),
              request |-> <<>>,
              settled |-> <<[routePoints |-> routePoints, routed |-> now.value # <<>>]>>]

\* a number that tells a new pending request from those already pending
FreshRequestId ==
    CHOOSE i \in 1..(Cardinality(pending) + 1) :
        /\ \A p \in pending : p.id # i
        /\ \A j \in 1..(i - 1) : \E p \in pending : p.id = j

\* the rest of a store action that ends by calling calculateRoute on state st
ThenCalculateRoute(st) ==
    LET r == calculateRoute(st)
    IN  /\ r.request # <<>> => requests < MaxRequests
        /\ store' = r.store
        /\ settled' = r.settled
        /\ IF r.request = <<>>
           THEN UNCHANGED <<pending, requests>>
           ELSE /\ requests' = requests + 1
                /\ pending' = pending \cup
                       {[id |-> FreshRequestId, caller |-> "store",
                         routePoints |-> r.request[1].routePoints,
                         profile |-> r.request[1].profile]}
        /\ served' = <<>>
        /\ UNCHANGED <<cache, apiKey, trackVars, pureVars, exportVars>>

\* the rest of a store action that ends in state st without calling calculateRoute
ThenReturn(st) ==
    /\ store' = st
    /\ settled' = <<>>
    /\ served' = <<>>
    /\ UNCHANGED <<pending, requests, cache, apiKey, trackVars, pureVars, exportVars>>

\* positions a waypoint is placed at: two points on one meridian
Latitudes == {407829000, 407849000}

Longitude == -739857000

\* crypto.randomUUID(): an id no waypoint of the store carries
FreshId(ws) ==
    CHOOSE i \in 1..(Len(ws) + 1) :
        /\ \A k \in 1..Len(ws) : ws[k].id # i
        /\ \A j \in 1..(i - 1) : \E k \in 1..Len(ws) : ws[k].id = j

AddWaypoint ==
    /\ Len(store.waypoints) < MaxWaypoints
    /\ \E lat \in Latitudes :
        LET waypoints == store.waypoints
            newWaypoint == [id |-> FreshId(waypoints), lat |-> lat, lng |-> Longitude,
                            order |-> Len(waypoints)]
            newWaypoints == Append(waypoints, newWaypoint)
            st == [store EXCEPT !.waypoints = newWaypoints]
        IN  IF Len(newWaypoints) >= 2
            THEN ThenCalculateRoute(st)
            ELSE ThenReturn(calculateTotalDistance(st))

UpdateWaypoint ==
    \E w \in 1..Len(store.waypoints), lat \in Latitudes :
        LET waypoints == store.waypoints
            id == waypoints[w].id
            updatedWaypoints ==
                [k \in 1..Len(waypoints) |->
                    IF waypoints[k].id = id
                    THEN [waypoints[k] EXCEPT !.lat = lat, !.lng = Longitude]
                    ELSE waypoints[k]]
            st == [store EXCEPT !.waypoints = updatedWaypoints]
        IN  IF Len(updatedWaypoints) >= 2
            THEN ThenCalculateRoute(st)
            ELSE ThenReturn(calculateTotalDistance(st))

DeleteWaypoint ==
    \E w \in 1..Len(store.waypoints) :
        LET waypoints == store.waypoints
            id == waypoints[w].id
            kept == SelectSeq(waypoints, LAMBDA wp : wp.id # id)
            filteredWaypoints == [k \in 1..Len(kept) |-> [kept[k] EXCEPT !.order = k - 1]]
            st == [store EXCEPT !.waypoints = filteredWaypoints]
        IN  IF Len(filteredWaypoints) >= 2
            THEN ThenCalculateRoute(st)
            ELSE ThenReturn(calculateTotalDistance([st EXCEPT !.routeGeometry = <<>>]))

ClearWaypoints ==
    /\ store.waypoints # <<>> \/ store.routeGeometry # <<>> \/ store.totalDistance # 0
    /\ ThenReturn([store EXCEPT !.waypoints = <<>>, !.routeGeometry = <<>>,
                                !.totalDistance = 0])

\* profiles the user switches between
ChosenProfiles == {"driving-car", "foot-walking"}

SetRoutingProfile ==
    \E profile \in ChosenProfiles :
        LET st == [store EXCEPT !.routingProfile = profile]
        IN  IF Len(st.waypoints) >= 2
            THEN ThenCalculateRoute(st)
            ELSE ThenReturn(st)

\* a direct call of the store's calculateRoute
CalculateRoute == ThenCalculateRoute(store)

\* the j-th route handed to getRoute directly, and a route whose coordinates differ
\* from those of route 1 in the seventh decimal only
DirectRoute(j) ==
    <<[lat |-> 407829000, lng |-> Longitude],
      [lat |-> 407829000 + 20 * j, lng |-> Longitude]>>

NearRoute1 ==
    <<[lat |-> 407829004, lng |-> Longitude],
      [lat |-> 407829000 + 20, lng |-> Longitude]>>

\* routes a direct call may ask for again
Repeated == {1, 2}

\* requests during which a further direct call may be made
Overlapped == {1, 100, 101}

\* requests for which the routing API may fail
Failing == {1, 2, 101}

\* a direct call of routingService.getRoute: the next new route, or one asked before
GetRoute ==
    /\ Cardinality(pending) < MaxInFlight
    /\ \A p \in pending : p.id \in Overlapped
    /\ \E j \in Repeated \cup {requests + 1}, near \in BOOLEAN :
        /\ j <= requests + 1
        /\ near => j = 1
        /\ (j <= requests /\ GetRouteNow(DirectRoute(j), "driving-car").kind = "request") =>
              \/ Len(cache) = CACHE_LIMIT /\ pending = {}
              \/ j = 1 /\ requests = 1 /\ pending # {}
        /\ LET points == IF near THEN NearRoute1 ELSE DirectRoute(j)
               profile == "driving-car"
               now == GetRouteNow(points, profile)
           IN  IF now.kind = "request"
               THEN /\ requests < MaxRoutes
                    /\ requests' = requests + 1
                    /\ pending' = pending \cup
                           {[id |-> requests + 1, caller |-> "direct",
                             routePoints |-> points, profile |-> profile]}
                    /\ served' = <<>>
               ELSE /\ served' = <<[key |-> getCacheKey(points, profile),
                                    source |-> now.kind, value |-> now.value,
                                    cacheBefore |-> cache, requestsBefore |-> requests]>>
                    /\ UNCHANGED <<pending, requests>>
    /\ settled' = <<>>
    /\ UNCHANGED <<store, cache, apiKey, trackVars, pureVars, exportVars>>

\* the routing API answers a pending request, or the request fails (network error,
\* timeout, error status, reply without features): getRoute caches and returns the
\* result or returns null, and the calculateRoute call awaiting it continues
RouteReply ==
    \E p \in pending, ok \in BOOLEAN :
        LET key == getCacheKey(p.routePoints, p.profile)
            routeResult == IF ok THEN <<RouteFor(p.routePoints, p.profile)>> ELSE <<>>
        IN  /\ (p.caller = "direct" /\ ~ok) => p.id \in Failing
            /\ cache' = IF ok THEN CacheLimit(CacheSet(cache, key, routeResult[1])) ELSE cache
            /\ pending' = pending \ {p}
            /\ IF p.caller = "store"
               THEN /\ store' = RouteSettled(store, p.routePoints, routeResult)
                    /\ settled' = <<[routePoints |-> p.routePoints, routed |-> ok]>>
                    /\ served' = <<>>
               ELSE /\ served' = <<[key |-> key, source |-> IF ok THEN "api" ELSE "failed",
                                    value |-> routeResult, cacheBefore |-> cache,
                                    requestsBefore |-> requests]>>
                    /\ settled' = <<>>
                    /\ UNCHANGED store
            /\ UNCHANGED <<requests, apiKey, trackVars, pureVars, exportVars>>

---------------------------------------------------------------------------
(* Elevation proxy (app/api/elevation/route.ts).  Latitudes and longitudes in  *)
(* micro-degrees, elevations of the upstream in tenths of a metre.             *)

\* generateFallbackElevation(lat, lng) of the proxy with the
\* (Math.random() - 0.5) * 100 term passed in (millimetres); whole metres
proxyFallbackElevation(lat, lng, randomVariation) ==
    LET latVariation == (Abs(lat) * 2) \div 1000
        lngDeg == Abs(lng) \div 1000000
        sinLng == IF lng >= 0 THEN Sin1000(lngDeg % 360, 360) ELSE -Sin1000(lngDeg % 360, 360)
        lngVariation == sinLng * 50
        elevation == Max(0, 100000 + latVariation + lngVariation + randomVariation)
    IN  MathRound(elevation, 1000)

\* body.locations.map(...) of the two fallback branches
FallbackResults(locations, draws) ==
    [k \in 1..Len(locations) |->
        [latitude |-> locations[k].latitude, longitude |-> locations[k].longitude,
         elevation |-> proxyFallbackElevation(locations[k].latitude, locations[k].longitude,
                                              PatternAt(draws, k))]]

\* NextResponse.json(value, {status})
JsonResponse(status, results, fallback) ==
    [status |-> status, results |-> results, fallback |-> fallback]

\* request.json() on a request whose body was or was not read before: a body can
\* be read once, a second read rejects with a TypeError
RequestJson(body, bodyUsed) ==
    IF bodyUsed THEN [ok |-> FALSE, value |-> <<>>] ELSE [ok |-> TRUE, value |-> body]

\* the catch block of POST: the fallback is built from a second request.json()
PostCatch(body, bodyUsed, draws) ==
    LET again == RequestJson(body, bodyUsed)
    IN  IF again.ok /\ again.value # <<>>
        THEN JsonResponse(200, <<FallbackResults(again.value[1], draws)>>, <<TRUE>>)
        ELSE JsonResponse(500, <<>>, <<>>)

\* POST on a request with a JSON body (<<>>: no locations array, <<locations>>
\* otherwise), one reply of the upstream and the random terms of the fallback
POST(body, upstream, draws) ==
    LET first == RequestJson(body, FALSE)
        locations == first.value[1]
        n == Len(locations)
        invalid(location) ==
            \/ location.latitude < -90000000 \/ location.latitude > 90000000
            \/ location.longitude < -180000000 \/ location.longitude > 180000000
    IN  IF first.value = <<>> THEN JsonResponse(400, <<>>, <<>>)
        ELSE IF n = 0 THEN JsonResponse(200, <<<<>>>>, <<>>)
        ELSE IF n > 100 THEN JsonResponse(400, <<>>, <<>>)
        ELSE IF \E k \in 1..n : invalid(locations[k]) THEN JsonResponse(400, <<>>, <<>>)
        ELSE IF upstream.kind = "throw" THEN PostCatch(body, TRUE, draws)
        ELSE IF upstream.kind = "http"
        THEN JsonResponse(200, <<FallbackResults(locations, draws)>>, <<TRUE>>)
        ELSE IF upstream.kind = "malformed" THEN PostCatch(body, TRUE, draws)
        ELSE IF upstream.results = <<>> THEN PostCatch(body, TRUE, draws)
        ELSE IF Len(upstream.results[1]) # n THEN PostCatch(body, TRUE, draws)
        ELSE JsonResponse(200,
                 <<[k \in 1..n |->
                       [latitude |-> locations[k].latitude,
                        longitude |-> locations[k].longitude,
                        elevation |-> MathRound(upstream.results[1][k], 10)]]>>,
                 <<FALSE>>)

\* locations of a request: two in range and one with a latitude above 90 degrees
Locations ==
    {[latitude |-> 40782900, longitude |-> -73985700],
     [latitude |-> 40784900, longitude |-> -73985700],
     [latitude |-> 91000000, longitude |-> -73985700]}

\* request bodies: no locations array, up to MaxLocations locations, and 101 locations
RequestBodies ==
    {<<>>} \cup {<<l>> : l \in SeqsUpTo(Locations, MaxLocations)}
    \cup {<<[k \in 1..101 |-> [latitude |-> 40782900, longitude |-> -73985700]]>>}

\* replies of the upstream to a lookup of n locations: those of the lookup model
\* and a 200 reply whose body is not JSON
UpstreamReplies(n) ==
    Responses(n) \cup {[kind |-> "malformed", status |-> 200, results |-> <<>>]}

CallPOST ==
    /\ pc = "idle" /\ call = "none"
    /\ \E body \in RequestBodies, draws \in FallbackDraws :
        \E upstream \in UpstreamReplies(IF body = <<>> THEN 1 ELSE Max(1, Len(body[1]))) :
            /\ arg' = <<body, upstream>>
            /\ ret' = POST(body, upstream, draws)
    /\ call' = "POST"
    /\ UNCHANGED <<trackVars, storeVars, exportVars>>

---------------------------------------------------------------------------
(* Export handlers: GPXForm.handleSubmit, GPXExportDialog.handleExport and     *)
(* RouteList.handleDownload (through downloadGPX).  Each calls downloadGpx      *)
(* without awaiting it.  The handlers ask for the legacy generator, which has   *)
(* no await: generateGpx runs to its return inside the call, downloadGpx then   *)
(* suspends at its await, and the handler goes on.                              *)

Handlers == {"GPXForm.handleSubmit", "GPXExportDialog.handleExport", "RouteList.handleDownload"}

\* the options a handler builds: the form and the dialog pass the speed, downloadGPX
\* passes neither speed nor pace; the dialog exports routes of two or more points
ExportOptions(h) ==
    {o \in AllOptions :
        /\ ~o.useRealisticTiming /\ o.activityType = "Run"
        /\ o.averageSpeedKmh = (IF h = "RouteList.handleDownload" THEN <<>> ELSE <<10000>>)
        /\ o.averagePaceMinPerKm = <<>>
        /\ o.elevationGain = <<>> /\ o.elevationProfile = "flat"
        /\ o.addNoise /\ o.pauseDuration = 0
        /\ o.samplingRateSeconds = 4000 /\ o.speedVariation = 15
        /\ ~o.addElevation /\ ~o.useRealElevation
        /\ h = "GPXExportDialog.handleExport" => Len(o.coordinates) >= 2}

\* the handler is called and calls downloadGpx(options), which calls generateGpx
HandlerCall ==
    /\ handler = "none"
    /\ \E h \in Handlers :
        /\ GenerateGpxCall(ExportOptions(h))
        /\ handler' = h
    /\ download' = "pending"
    /\ UNCHANGED <<toasts, pureVars, storeVars>>

\* handleExport without a route of two points: the failure notification, and return
HandleExportNoRoute ==
    /\ handler = "none" /\ pc = "idle"
    /\ handler' = "GPXExportDialog.handleExport"
    /\ toasts' = Append(toasts, "error")
    /\ UNCHANGED <<download, trackVars, pureVars, storeVars>>

\* downloadGpx has returned its pending promise to the handler, which does not
\* await it: the next statement is toast.success
HandlerNotify ==
    /\ handler # "none" /\ download = "pending" /\ toasts = <<>>
    /\ pc = "done"
    /\ toasts' = Append(toasts, "success")
    /\ UNCHANGED <<handler, download, trackVars, pureVars, storeVars>>

\* the handler has returned and downloadGpx resumes after its await: a rejected
\* generation rejects it; otherwise it builds the Blob and clicks the link, and
\* completes, or one of these browser calls throws and it rejects.  Nothing
\* handles the rejection.
DownloadSettles ==
    /\ handler # "none" /\ download = "pending" /\ toasts # <<>>
    /\ \E thrown \in BOOLEAN :
        download' = IF outcome = "rejected" \/ thrown THEN "rejected" ELSE "completed"
    /\ UNCHANGED <<handler, toasts, trackVars, pureVars, storeVars>>

---------------------------------------------------------------------------
(* Specifications *)

InitTrack ==
    /\ pc = "idle"
    /\ options = [activityType |-> "Run", coordinates |-> <<>>, startTime |-> StartTime,
                  averageSpeedKmh |-> <<>>, averagePaceMinPerKm |-> <<>>,
                  elevationGain |-> <<>>, elevationProfile |-> "flat", addNoise |-> TRUE,
                  pauseDuration |-> 0, useRealisticTiming |-> FALSE,
                  samplingRateSeconds |-> 4000, speedVariation |-> 15,
                  addElevation |-> FALSE, useRealElevation |-> FALSE]
    /\ speedKmh = 0
    /\ rpoints = <<>>
    /\ result = <<>>
    /\ idx = 0
    /\ currentTime = 0
    /\ totalDistance = 0
    /\ cumulativeElevation = 0
    /\ pointsWithElevation = <<>>
    /\ caller = "none"
    /\ batchStart = 0
    /\ attempt = 0
    /\ enrichedPoints = <<>>
    /\ log = <<>>
    /\ outcome = "none"
    /\ segments = <<>>
    /\ call = "none"
    /\ arg = <<>>
    /\ ret = <<>>
    /\ store = [waypoints |-> <<>>, routeGeometry |-> <<>>, totalDistance |-> 0,
                isRouting |-> FALSE, routingProfile |-> "driving-car"]
    /\ pending = {}
    /\ cache = <<>>
    /\ requests = 0
    /\ served = <<>>
    /\ settled = <<>>
    /\ handler = "none"
    /\ toasts = <<>>
    /\ download = "none"

\* the routing service is constructed with the API key of the environment
Init == InitTrack /\ apiKey = TRUE

InitStore == InitTrack /\ apiKey \in BOOLEAN

FetchSteps ==
    \/ StartBatch
    \/ AddElevationReturn
    \/ ApiSuccess
    \/ ApiFailure
    \/ RateLimitWaitDone
    \/ BackoffDone

\* generateGpx calls of the main specification: the options a path does not read
\* keep their defaults
GenOptions ==
    {o \in AllOptions :
        /\ o.averageSpeedKmh = <<10000>>
        /\ o.averagePaceMinPerKm = <<>>
        /\ IF o.useRealisticTiming
           THEN /\ o.activityType \in {"Run", "Walk"}
                /\ o.elevationProfile = "flat" /\ o.addNoise /\ o.pauseDuration = 0
           ELSE /\ o.activityType = "Run"
                /\ o.samplingRateSeconds = 4000 /\ o.speedVariation = 15
                /\ o.elevationGain = <<0>> => o.elevationProfile = "flat"
                /\ o.elevationProfile = "mountainous" => o.elevationGain = <<50>>
                /\ ~o.addElevation /\ ~o.useRealElevation}

Next ==
    \/ GenerateGpx(GenOptions)
    \/ LegacyDegenerate
    \/ LegacyStart
    \/ LegacyIteration
    \/ LegacyReturn
    \/ RealisticDegenerate
    \/ RealisticFetchElevation
    \/ RealisticFirstPoint
    \/ RealisticIteration
    \/ RealisticReturn
    \/ FetchSteps

Spec == Init /\ [][Next]_vars

NextFetch == AddElevationToPoints \/ FetchSteps

SpecFetch == Init /\ [][NextFetch]_vars

\* generateGpx calls with every combination of speed, pace, activity and path;
\* no elevation, no noise, no pause
SpeedOptions ==
    {o \in AllOptions :
        /\ o.elevationGain = <<>> /\ o.elevationProfile = "flat"
        /\ ~o.addNoise /\ o.pauseDuration = 0
        /\ o.samplingRateSeconds = 4000 /\ o.speedVariation = 15
        /\ ~o.addElevation /\ ~o.useRealElevation}

NextSpeed ==
    \/ GenerateGpx(SpeedOptions)
    \/ LegacyDegenerate
    \/ LegacyStart
    \/ LegacyIteration
    \/ LegacyReturn
    \/ RealisticDegenerate
    \/ RealisticFirstPoint
    \/ RealisticIteration
    \/ RealisticReturn

SpecSpeed == Init /\ [][NextSpeed]_vars

NextPure ==
    \/ CallEscapeXml
    \/ CallGenerateGPXXML
    \/ CallTimestampedPointsToGPX
    \/ CallAddSpeedVariation
    \/ CallCalculateSpeedAdjustmentForElevation
    \/ CallGeneratePacingCurve
    \/ CallFormatDuration
    \/ CallFormatPace
    \/ CallPOST

SpecPure == Init /\ [][NextPure]_vars

NextExport ==
    \/ HandlerCall
    \/ HandleExportNoRoute
    \/ LegacyDegenerate
    \/ LegacyStart
    \/ LegacyIteration
    \/ LegacyReturn
    \/ HandlerNotify
    \/ DownloadSettles

SpecExport == Init /\ [][NextExport]_vars

NextStore ==
    \/ AddWaypoint
    \/ UpdateWaypoint
    \/ DeleteWaypoint
    \/ ClearWaypoints
    \/ SetRoutingProfile
    \/ CalculateRoute
    \/ RouteReply

SpecStore == InitStore /\ [][NextStore]_vars

NextRouting == GetRoute \/ RouteReply

SpecRouting == Init /\ [][NextRouting]_vars

---------------------------------------------------------------------------
(* Properties *)

Realistic == pc \in {"realistic_loop", "done"} /\ options.useRealisticTiming

Legacy == pc \in {"legacy_loop", "done"} /\ ~options.useRealisticTiming /\ caller # "direct"

GpxDone == pc = "done" /\ caller # "direct"

C2_LegacyFloor ==
    Legacy =>
        \A k \in 1..(Len(result) - 1) :
            result[k + 1].time - result[k].time >= options.samplingRateSeconds

\* C2 amended: the legacy path applies no floor; consecutive timestamps never
\* decrease, and a zero-length segment without pause leaves the timestamp unchanged
C2_LegacyNonDecreasing ==
    Legacy =>
        \A k \in 1..(Len(result) - 1) :
            /\ result[k + 1].time >= result[k].time
            /\ (options.coordinates[k] = options.coordinates[k + 1]
                /\ options.pauseDuration = 0) => result[k + 1].time = result[k].time

\* a finished legacy run with a zero-length segment and a segment of positive length
C2_Witness ==
    /\ Legacy /\ pc = "done" /\ Len(result) >= 3
    /\ options.pauseDuration = 0
    /\ \E k \in 1..(Len(result) - 1) :
          options.coordinates[k] = options.coordinates[k + 1]
          /\ result[k + 1].time = result[k].time
    /\ \E k \in 1..(Len(result) - 1) : result[k + 1].time > result[k].time

\* C3: the output has one point per input coordinate, with the latitude and
\* longitude of that coordinate, in input order
C3_PointsPreserved ==
    /\ GpxDone => Len(result) = Len(options.coordinates)
    /\ (Realistic \/ Legacy) =>
          /\ Len(result) <= Len(options.coordinates)
          /\ \A k \in 1..Len(result) :
                /\ result[k].lat = options.coordinates[k][2]
                /\ result[k].lng = options.coordinates[k][1]

\* a finished run over three points whose elevations came from the fallback of a
\* failed lookup
C3_Witness ==
    /\ GpxDone /\ Len(result) = 3 /\ options.coordinates[1] # options.coordinates[2]
    /\ \E p \in 1..Len(log) : log[p].ev = "fallback"

\* C4 as claimed: every emitted elevation is a number >= 0
C4_ElevationNonNegative ==
    (Realistic \/ Legacy) =>
        \A k \in 1..Len(result) :
            result[k].elevation # <<>> =>
                result[k].elevation[1] # NaN /\ result[k].elevation[1] >= 0

\* C5: with elevation policy 'real' the call never rejects, can always take its
\* next step, and ends resolved with n points that all carry an elevation
C5_LookupNeverRejects ==
    (caller = "realistic") =>
        /\ outcome # "rejected"
        /\ pc # "done" => ENABLED Next
        /\ pc = "done" =>
              /\ outcome = "resolved"
              /\ Len(result) = Len(options.coordinates)
              /\ \A k \in 1..Len(result) : result[k].elevation # <<>>

\* a finished run whose lookup failed in all three attempts, one of them with 429
C5_Witness ==
    /\ caller = "realistic" /\ pc = "done" /\ Len(result) >= 2
    /\ \E p \in 1..Len(log) : log[p].ev = "fallback"
    /\ \E p \in 1..Len(log) : log[p].ev = "wait" /\ log[p].ms = RateLimitWaitMs

\* number of lookup requests for the batch of log[p] sent before log[p]
EarlierCalls(p) ==
    Cardinality({q \in 1..(p - 1) : log[q].ev = "call" /\ log[q].start = log[p].start})

\* log[p] is the last event of its batch
EndsBatch(p) == \A q \in (p + 1)..Len(log) : log[q].start # log[p].start

\* C6: per batch at most 3 lookup attempts; retry k comes right after a backoff of
\* k seconds; the first success ends the loop; the fallback comes only after the
\* third failed attempt and yields one elevation per point of the batch
C6_RetryLoop ==
    /\ \A p \in 1..Len(log) :
          /\ log[p].ev = "call" =>
                /\ EarlierCalls(p) <= 2
                /\ IF EarlierCalls(p) = 0
                   THEN p = 1 \/ log[p - 1].start # log[p].start
                   ELSE /\ log[p - 1].ev = "wait"
                        /\ log[p - 1].start = log[p].start
                        /\ log[p - 1].ms = 1000 * EarlierCalls(p)
          /\ log[p].ev = "ok" => log[p - 1].ev = "call" /\ EndsBatch(p)
          /\ log[p].ev = "fallback" =>
                /\ EarlierCalls(p) = 3
                /\ EndsBatch(p)
                /\ log[p].n = Min(100, Len(rpoints) - log[p].start)
    /\ pc = "batch" => Len(enrichedPoints) = Min(batchStart, Len(rpoints))

\* two batches done: one answered by its second retry, one by the fallback
C6_Witness ==
    /\ pc = "batch"
    /\ \E p \in 1..Len(log) : log[p].ev = "fallback"
    /\ \E p \in 1..Len(log) : log[p].ev = "ok" /\ EarlierCalls(p) = 3

\* C7 as claimed: a wait is always followed by a further lookup attempt, so the
\* fallback never comes right after a wait
C7_WaitOnlyBeforeAttempt ==
    \A p \in 2..Len(log) : log[p].ev = "fallback" => log[p - 1].ev # "wait"

\* C8: requests carry at most 100 points, the batches follow one another in input
\* order without gap or overlap, and the m results carry the coordinates of the
\* m inputs in order
C8_Batching ==
    caller = "direct" =>
        /\ \A p \in 1..Len(log) :
              /\ log[p].n >= 1 /\ log[p].n <= 100
              /\ log[p].n = Min(100, Len(rpoints) - log[p].start)
              /\ IF p = 1 THEN log[p].start = 0
                 ELSE log[p].start \in {log[p - 1].start, log[p - 1].start + log[p - 1].n}
        /\ Len(enrichedPoints) <= Len(rpoints)
        /\ \A j \in 1..Len(enrichedPoints) :
              /\ enrichedPoints[j].lat = rpoints[j].lat
              /\ enrichedPoints[j].lng = rpoints[j].lng
        /\ pc = "done" => Len(enrichedPoints) = Len(rpoints)

\* a finished direct call over more than 100 points with one batch answered by the
\* lookup and one by the fallback
C8_Witness ==
    /\ caller = "direct" /\ pc = "done" /\ Len(rpoints) > 100
    /\ \E p \in 1..Len(log) : log[p].ev = "fallback"
    /\ \E p \in 1..Len(log) : log[p].ev = "ok"

NeitherResolvable ==
    ~Truthy(options.averageSpeedKmh) /\ ~Truthy(options.averagePaceMinPerKm)

\* C9 as claimed: a call with neither speed nor pace fails
C9_RejectsWithoutSpeed ==
    (GpxDone /\ NeitherResolvable) => outcome = "rejected"

\* C9 amended: a call with neither speed nor pace is not rejected; it runs at the
\* default speed of its activity (Run 10, Bike 25, Walk 5 km/h) and resolves with
\* the full track
C9_DefaultSpeed ==
    (pc # "idle" /\ caller # "direct" /\ NeitherResolvable) =>
        /\ speedKmh = (CASE options.activityType = "Run" -> 10000
                         [] options.activityType = "Bike" -> 25000
                         [] options.activityType = "Walk" -> 5000)
        /\ outcome # "rejected"
        /\ pc = "done" => outcome = "resolved" /\ Len(result) = Len(options.coordinates)

\* a finished Bike call without speed and pace
C9_Witness ==
    /\ GpxDone /\ NeitherResolvable /\ options.activityType = "Bike"
    /\ Len(result) >= 2 /\ result[2].time > result[1].time

\* the speed C10 expects generateGpx to resolve when a speed or a pace is given
C10_Expected ==
    IF Truthy(options.averageSpeedKmh) THEN options.averageSpeedKmh[1]
    ELSE 6000000 \div options.averagePaceMinPerKm[1]

\* C10: a given averageSpeedKmh is the base speed, with or without a pace; a pace p
\* alone gives 60/p km/h; the generator of either path runs at that speed
C10_SpeedResolution ==
    (pc # "idle" /\ caller # "direct"
     /\ (Truthy(options.averageSpeedKmh)
         \/ (options.averageSpeedKmh = <<>> /\ Truthy(options.averagePaceMinPerKm)))) =>
        /\ speedKmh = C10_Expected
        /\ (Realistic /\ Len(result) >= 1) => result[1].speed = <<C10_Expected>>
        /\ (Legacy /\ ~options.addNoise /\ options.pauseDuration = 0) =>
              \A k \in 1..(Len(result) - 1) :
                  result[k + 1].time - result[k].time =
                      (calculateSegmentDistance(options.coordinates[k],
                                                options.coordinates[k + 1]) * 3600)
                          \div C10_Expected

\* a finished legacy call given both a speed and a different pace
C10_Witness ==
    /\ Legacy /\ pc = "done" /\ Len(result) >= 2
    /\ options.averageSpeedKmh = <<10000>> /\ options.averagePaceMinPerKm = <<500>>
    /\ result[2].time > result[1].time

\* the pacing-adjusted base speed of the realistic segment that ends at point k
BaseSpeed(k) ==
    (speedKmh * generatePacingCurve(Len(rpoints), options.activityType)[k + 1]) \div 10000

C12_StartTime ==
    (pc # "idle" /\ caller # "direct") =>
        /\ Len(result) >= 1 => result[1].time = options.startTime
        /\ (pc = "done" /\ Len(options.coordinates) < 2) =>
              /\ outcome = "resolved"
              /\ Len(result) = Len(options.coordinates)
              /\ \A k \in 1..Len(result) : result[k].time = options.startTime

\* a finished realistic call with a single coordinate
C12_Witness ==
    /\ GpxDone /\ options.useRealisticTiming
    /\ Len(options.coordinates) = 1 /\ Len(result) = 1
    /\ result[1].time = options.startTime

RECURSIVE SumSegmentTimes(_, _, _)
\* milliseconds of the first k segments of the coordinates at a constant speed
SumSegmentTimes(coordinates, speed, k) ==
    IF k = 0 THEN 0
    ELSE SumSegmentTimes(coordinates, speed, k - 1)
         + (calculateSegmentDistance(coordinates[k], coordinates[k + 1]) * 3600) \div speed

Entity(c) ==
    CASE c = "&" -> <<"&", "a", "m", "p", ";">>
      [] c = "<" -> <<"&", "l", "t", ";">>
      [] c = ">" -> <<"&", "g", "t", ";">>
      [] c = "\"" -> <<"&", "q", "u", "o", "t", ";">>
      [] c = "'" -> <<"&", "a", "p", "o", "s", ";">>
      [] OTHER -> <<c>>

RECURSIVE EscapedOnce(_)
\* every character of the text replaced by its entity, once
EscapedOnce(text) ==
    IF text = <<>> THEN <<>> ELSE Entity(Head(text)) \o EscapedOnce(Tail(text))

\* no raw < > " ' and every & starts one of the five entities
WellEscaped(text) ==
    \A j \in 1..Len(text) :
        /\ text[j] \notin {"<", ">", "\"", "'"}
        /\ text[j] = "&" =>
              \E c \in {"&", "<", ">", "\"", "'"} :
                  /\ j + Len(Entity(c)) - 1 <= Len(text)
                  /\ SubSeq(text, j, j + Len(Entity(c)) - 1) = Entity(c)

SerializerCalled == call \in {"generateGPXXML", "timestampedPointsToGPX"}

\* positions of the opening / closing tags of an element name in a document
Opens(doc, tag) == {j \in 1..Len(doc) : doc[j].t = "open" /\ doc[j].tag = tag}

Closes(doc, tag) == {j \in 1..Len(doc) : doc[j].t = "close" /\ doc[j].tag = tag}

\* the input string a serializer writes below an element of the given name
InsertedInput(tag) ==
    CASE tag = "name" -> arg.name
      [] tag = "desc" -> arg.description
      [] tag = "type" -> arg.activityType

\* C13: the text both serializers insert for name, description and activity type
\* is the input with each of & < > " ' replaced by its entity exactly once; it holds
\* no raw < > " ' and every & in it starts one of the five entities
C13_EscapedOnce ==
    /\ call = "escapeXml" => ret = EscapedOnce(arg) /\ WellEscaped(ret)
    /\ SerializerCalled =>
        /\ Cardinality(Opens(ret, "name")) = 2
        /\ Cardinality(Opens(ret, "desc")) = 1
        /\ Cardinality(Opens(ret, "type")) = 1
        /\ \A tag \in {"name", "desc", "type"} :
              \A j \in Opens(ret, tag) :
                  /\ ret[j + 1].t = "text"
                  /\ ret[j + 1].text = EscapedOnce(InsertedInput(tag))
                  /\ WellEscaped(ret[j + 1].text)
                  /\ ret[j + 2].t = "close" /\ ret[j + 2].tag = tag

\* a document of timestampedPointsToGPX whose name holds & and < and whose
\* description holds < and >
C13_Witness ==
    /\ call = "timestampedPointsToGPX"
    /\ arg.name = <<"&", "<">> /\ arg.description = <<"<", "a", ">">>
    /\ \E j \in Opens(ret, "name") :
          ret[j + 1].text = <<"&", "a", "m", "p", ";", "&", "l", "t", ";">>

\* position of the k-th opening tag of an element name
NthOpen(doc, tag, k) ==
    CHOOSE j \in Opens(doc, tag) : Cardinality({i \in Opens(doc, tag) : i <= j}) = k

\* position of the first closing tag of an element name after position j
CloseAfter(doc, tag, j) ==
    CHOOSE c \in Closes(doc, tag) :
        c > j /\ \A d \in Closes(doc, tag) : d > j => c <= d

\* C14: both serializers emit exactly one metadata block and one track with one
\* segment holding one trkpt per input point, in input order; a trkpt has an ele
\* child iff the point's elevation is defined; an empty list gives an empty trkseg
C14_DocumentShape ==
    SerializerCalled =>
        LET doc == ret
            points == arg.points
            digits == IF call = "generateGPXXML" THEN 6 ELSE 7
            one(tag) == /\ Cardinality(Opens(doc, tag)) = 1
                        /\ Cardinality(Closes(doc, tag)) = 1
            open(tag) == NthOpen(doc, tag, 1)
            close(tag) == CloseAfter(doc, tag, 0)
        IN  /\ one("metadata") /\ one("trk") /\ one("trkseg")
            /\ close("metadata") < open("trk")
            /\ open("trk") < open("trkseg")
            /\ close("trkseg") < close("trk")
            /\ Cardinality(Opens(doc, "trkpt")) = Len(points)
            /\ Cardinality(Closes(doc, "trkpt")) = Len(points)
            /\ Len(points) = 0 => close("trkseg") = open("trkseg") + 1
            /\ \A k \in 1..Len(points) :
                  LET j == NthOpen(doc, "trkpt", k)
                      c == CloseAfter(doc, "trkpt", j)
                  IN  /\ open("trkseg") < j /\ c < close("trkseg")
                      /\ k < Len(points) => c < NthOpen(doc, "trkpt", k + 1)
                      /\ doc[j].attrs = <<CoordToFixed(points[k].lat, digits),
                                          CoordToFixed(points[k].lng, digits)>>
                      /\ (\E e \in Opens(doc, "ele") : j < e /\ e < c)
                             <=> points[k].elevation # <<>>
                      /\ Cardinality({e \in Opens(doc, "ele") : j < e /\ e < c}) <= 1

\* a document of generateGPXXML for three points: the first without elevation, the
\* second with elevation 0, the third with a positive elevation
C14_Witness ==
    /\ call = "generateGPXXML" /\ Len(arg.points) = 3
    /\ arg.points[1].elevation = <<>>
    /\ arg.points[2].elevation = <<0>>
    /\ arg.points[3].elevation = <<12340>>
    /\ Cardinality(Opens(ret, "ele")) = 2

C20_GradeFactor ==
    call = "calculateSpeedAdjustmentForElevation" =>
        LET g1000 == 1000 * arg[1]      \* g * distance, both in millimetres
            distance == arg[2]
        IN  /\ ret \in {6, 8, 10, 11, 12}
            /\ distance = 0 => ret = 10
            /\ distance > 0 =>
                  /\ 100 * g1000 > 5 * distance => ret = 6
                  /\ (100 * g1000 > 2 * distance /\ 100 * g1000 <= 5 * distance) => ret = 8
                  /\ (100 * g1000 >= -5 * distance /\ 100 * g1000 < -2 * distance) => ret = 11
                  /\ 100 * g1000 < -5 * distance => ret = 12
                  /\ (100 * g1000 >= -2 * distance /\ 100 * g1000 <= 2 * distance) => ret = 10

\* a call at gradient exactly -0.05, the boundary between 1.1 and 1.2
C20_Witness ==
    /\ call = "calculateSpeedAdjustmentForElevation"
    /\ arg[2] > 0 /\ 100 * 1000 * arg[1] = -5 * arg[2]
    /\ ret = 11

\* C16: when calculateRoute runs with k >= 2 waypoints and the routing service
\* returns null, the store ends with routeGeometry.isRouted = false, the k
\* waypoints in ascending order as [lng, lat] pairs as coordinates, isRouting =
\* false and totalDistance equal to the straight-line distance along those waypoints
C16_StraightLineFallback ==
    (settled # <<>> /\ ~settled[1].routed /\ Len(settled[1].routePoints) >= 2) =>
        /\ store.routeGeometry =
               <<[coordinates |-> StraightLine(settled[1].routePoints), isRouted |-> FALSE]>>
        /\ ~store.isRouting
        /\ store.totalDistance =
               SumDistances(settled[1].routePoints, Len(settled[1].routePoints) - 1)

\* the cache after getRoute has stored a result under a key in cache before
CacheAfterStore(before, key, value) ==
    IF key \in CacheKeys(before)
    THEN /\ Len(cache) = Len(before)
         /\ \A k \in 1..Len(before) :
               /\ cache[k].key = before[k].key
               /\ cache[k].value = IF before[k].key = key THEN value ELSE before[k].value
    ELSE IF Len(before) < CACHE_LIMIT
    THEN cache = Append(before, [key |-> key, value |-> value])
    ELSE cache = Append(Tail(before), [key |-> key, value |-> value])

\* what holds after every settled getRoute call
C17_Served ==
    /\ Len(cache) <= CACHE_LIMIT
    /\ served # <<>> =>
        LET s == served[1]
        IN  /\ s.source \in {"hit", "null"} =>
                  (s.source = "hit" <=> (apiKey /\ s.key \in CacheKeys(s.cacheBefore)))
            /\ s.source = "hit" =>
                  /\ s.value = <<CacheGet(s.cacheBefore, s.key)>>
                  /\ requests = s.requestsBefore
                  /\ cache = s.cacheBefore
            /\ s.source \in {"null", "failed"} => s.value = <<>> /\ cache = s.cacheBefore
            /\ s.source = "api" =>
                  /\ s.value # <<>>
                  /\ CacheAfterStore(s.cacheBefore, s.key, s.value[1])

\* C17: the cache never holds more than 100 entries and the oldest inserted entry
\* is evicted first; only results of successful replies are stored (the cache
\* changes only when a request is answered successfully); a call whose key is
\* cached returns the cached result without a request to the routing API
C17_Cache ==
    /\ []C17_Served
    /\ [][/\ cache' # cache =>
                served' # <<>> /\ served'[1].source = "api" /\ served'[1].value # <<>>
          /\ (served' # <<>> /\ served'[1].source = "hit") =>
                requests' = requests /\ pending' = pending]_vars

\* a successful reply for a new key arrives at a full cache: the oldest entry goes
C17_Witness ==
    /\ served # <<>> /\ served[1].source = "api"
    /\ Len(served[1].cacheBefore) = CACHE_LIMIT
    /\ served[1].key \notin CacheKeys(served[1].cacheBefore)
    /\ Len(cache) = CACHE_LIMIT
    /\ cache[1] = served[1].cacheBefore[2]

SimulatedElevation ==
    /\ Realistic /\ RealisticAddElevation(options)
    /\ ~(options.useRealElevation /\ Len(pointsWithElevation) > 0)

\* distance along the route from point 0 to point i
Travelled(i) == calculateRouteDistance(SubSeq(rpoints, 1, i + 1))

\* C22 as claimed: with simulated elevation the elevation emitted for every point
\* i >= 1 is max(0, 0.7 x the elevation emitted for point i - 1 + 0.3 x (100 +
\* elevationGain x progress_i + variation_i)), the elevation of point 1 included
C22_BlendsEmitted ==
    SimulatedElevation =>
        \A i \in 1..(Len(result) - 1) :
            result[i + 1].elevation =
                <<calculateRealisticElevation(result[i].elevation[1], Travelled(i),
                      RealisticElevationGain(options), calculateRouteDistance(rpoints),
                      segments[i].variation[1])>>

\* the realistic path emits looked-up elevations and no batch of the lookup fell back
LookupSucceeded ==
    /\ Realistic /\ UsesLookup
    /\ Len(pointsWithElevation) = Len(rpoints)
    /\ \A e \in 1..Len(log) : log[e].ev # "fallback"

\* C23 as claimed: with looked-up elevation and a lookup that succeeded for every
\* batch, the elevation emitted for every index (index 0 and looked-up values of 0
\* included) is the rounded value the provider answered for that coordinate
C23_EmitsLookedUp ==
    LookupSucceeded =>
        \A i \in 1..Len(result) :
            result[i].elevation = <<1000 * pointsWithElevation[i].ele>>

\* C24 as claimed: once the lookup of a batch has failed for good (its fallback
\* was taken), no lookup is started for a later batch of the same call
C24_NoLookupAfterFallback ==
    \A a \in 1..Len(log), b \in 1..Len(log) :
        (a < b /\ log[a].ev = "fallback") => log[b].ev # "call"

\* C25 as claimed: in the legacy path with noise and tracked elevation the speed of
\* the segment from point k to point k + 1 is the varied speed times the grade
\* factor of that segment's own elevation change and distance, the first segment
\* included
C25_OwnSegmentGrade ==
    (Legacy /\ options.addNoise) =>
        \A k \in 1..Len(segments) :
            (k + 1 <= Len(result) /\ result[k].elevation # <<>>) =>
                LET coordinates == options.coordinates
                    segmentDistance == calculateSegmentDistance(coordinates[k], coordinates[k + 1])
                    elevationChange == (result[k + 1].elevation[1] - result[k].elevation[1]) \div 1000
                    varied == (speedKmh * segments[k].draw[1]) \div 1000
                IN  segments[k].speed =
                        (varied * calculateSpeedAdjustmentForElevation(
                                      elevationChange, segmentDistance)) \div 10

RECURSIVE ParseInt(_)
\* the number written by a sequence of decimal digits
ParseInt(s) ==
    IF s = <<>> THEN 0
    ELSE 10 * ParseInt(SubSeq(s, 1, Len(s) - 1))
         + (CHOOSE d \in 0..9 : IntToString(d) = <<s[Len(s)]>>)

RECURSIVE Fields(_)
\* the fields of a rendered value: the digit runs between its colons
Fields(s) ==
    IF \E k \in 1..Len(s) : s[k] = ":"
    THEN LET k == CHOOSE j \in 1..Len(s) : s[j] = ":" /\ \A l \in 1..(j - 1) : s[l] # ":"
         IN  <<SubSeq(s, 1, k - 1)>> \o Fields(SubSeq(s, k + 1, Len(s)))
    ELSE <<s>>

\* C26 as claimed: formatDuration and formatPace render a two-digit seconds field in
\* 00..59 (and formatDuration a two-digit minutes field in 00..59 when hours are
\* shown), and the rendered value is the input rounded to the nearest second
C26_Rendering ==
    /\ call = "formatDuration" =>
           LET f == Fields(ret)
               n == Len(f)
               value == [k \in 1..n |-> ParseInt(f[k])]
           IN  /\ n \in {2, 3}
               /\ Len(f[n]) = 2 /\ value[n] \in 0..59
               /\ n = 3 => (Len(f[2]) = 2 /\ value[2] \in 0..59)
               /\ (IF n = 3 THEN 3600 * value[1] + 60 * value[2] + value[3]
                             ELSE 60 * value[1] + value[2]) = MathRound(arg[1], 10)
    /\ call = "formatPace" =>
           LET f == Fields(SubSeq(ret, 1, Len(ret) - 1))
               value == [k \in 1..Len(f) |-> ParseInt(f[k])]
           IN  /\ ret[Len(ret)] = " min/km"
               /\ Len(f) = 2
               /\ Len(f[2]) = 2 /\ value[2] \in 0..59
               /\ 60 * value[1] + value[2] = MathRound(arg[1] * 60, 1000)

\* C27 as claimed: once no routing request is pending the store is consistent with
\* its waypoints: no geometry and distance 0 with fewer than two waypoints, and
\* otherwise a geometry computed from the current waypoints and routing profile
C27_ConsistentWhenSettled ==
    pending = {} =>
        LET routePoints == RoutePoints(SortByOrder(store.waypoints))
        IN  IF Len(store.waypoints) < 2
            THEN store.routeGeometry = <<>> /\ store.totalDistance = 0
            ELSE /\ store.routeGeometry # <<>>
                 /\ store.routeGeometry[1].coordinates =
                        IF store.routeGeometry[1].isRouted
                        THEN RouteFor(routePoints, store.routingProfile).coordinates
                        ELSE StraightLine(routePoints)

\* C28 as claimed: isRouting is true exactly while at least one calculateRoute call
\* awaits the routing service, so it stays true until the last pending one completes
C28_IsRoutingExact ==
    store.isRouting <=> (\E p \in pending : p.caller = "store")

\* the POST call was made with 1..100 locations, all in range
ValidRequest ==
    /\ call = "POST" /\ arg[1] # <<>>
    /\ Len(arg[1][1]) \in 1..100
    /\ \A k \in 1..Len(arg[1][1]) :
           /\ arg[1][1][k].latitude \in -90000000..90000000
           /\ arg[1][1][k].longitude \in -180000000..180000000

\* the upstream did not answer 200 with one result per location
UpstreamFailed ==
    \/ arg[2].kind # "body"
    \/ arg[2].results = <<>>
    \/ Len(arg[2].results[1]) # Len(arg[1][1])

\* C29 as claimed: for a valid request every upstream failure (non-OK status,
\* thrown error, malformed or wrong-length body) is answered with status 200,
\* fallback: true and one non-negative whole elevation per location
C29_FallbackOnEveryFailure ==
    (ValidRequest /\ UpstreamFailed) =>
        /\ ret.status = 200
        /\ ret.fallback = <<TRUE>>
        /\ ret.results # <<>>
        /\ Len(ret.results[1]) = Len(arg[1][1])
        /\ \A k \in 1..Len(ret.results[1]) : ret.results[1][k].elevation \in Nat

\* C30 as claimed: in every export handler the success notification is emitted only
\* after generation and download have completed without error, and a rejected
\* download leads to the failure notification and not to the success notification
C30_NotifiesAfterCompletion ==
    /\ (\E k \in 1..Len(toasts) : toasts[k] = "success") => download = "completed"
    /\ download = "rejected" =>
           /\ \E k \in 1..Len(toasts) : toasts[k] = "error"
           /\ \A k \in 1..Len(toasts) : toasts[k] # "success"

=============================================================================
